---- MODULE Spec2Model ----
(***************************************************************************)
(* Endpoint composition core of finchers: path cursor, primitive path and  *)
(* method endpoints, the And, All, Or and OrStrict combinators and the     *)
(* tasks they produce, for one request that is applied once and then       *)
(* polled by the driver.                                                   *)
(***************************************************************************)
EXTENDS Integers, Sequences, FiniteSets, TLC

(* ------------------------------ bounds -------------------------------- *)

\* Longest request path, in segments.
MaxSegs == 3

\* Number of poll rounds the driver makes at most for one request.
MaxPolls == 3

(* ------------------------------ values -------------------------------- *)

\* Output values: strings, integers and tuples, in one record shape so that
\* any two of them can be compared.
StrV(s) == [tag |-> "str", s |-> s, n |-> 0, sub |-> <<>>]

IntV(n) == [tag |-> "int", s |-> "", n |-> n, sub |-> <<>>]

TupV(seq) == [tag |-> "tuple", s |-> "", n |-> 0, sub |-> seq]

Unit == TupV(<<>>)

NoValue == [tag |-> "none", s |-> "", n |-> 0, sub |-> <<>>]

\* Option<T> is a sequence of length 0 (None) or 1 (Some).
None == <<>>

Some(x) == <<x>>

(* ------------------------------ request ------------------------------- *)

\* The encoded path segments a request can carry.
Words == {"foo", "bar", "42", "a%20b"}

Paths == UNION {[1..n -> Words] : n \in 0..MaxSegs}

\* Iterator::next on the path cursor: yields the segment at the offset and
\* steps over it, or yields None at the end of the path and stays.
CursorNext(segs, pos) ==
    IF pos < Len(segs)
    THEN [item |-> Some(segs[pos + 1]), pos |-> pos + 1]
    ELSE [item |-> None, pos |-> pos]

\* Iterator::count on the path cursor: consumes everything that remains.
CursorCount(segs, pos) == [n |-> Len(segs) - pos, pos |-> Len(segs)]

\* i32::from_segment on the words of the model: decimal digits parse, the
\* rest is an error.
FromSegment(s) ==
    CASE s = "42" -> [ok |-> TRUE, val |-> IntV(42), err |-> ""]
      [] OTHER    -> [ok |-> FALSE, val |-> NoValue, err |-> "ParseIntError"]

\* percent_encode(s, SEGMENT_ENCODE_SET) on the literals of the model.
PercentEncode(s) ==
    CASE s = "a b" -> "a%20b"
      [] OTHER     -> s

(* ------------------------------- tasks -------------------------------- *)

NoTask == [kind |-> "none"]

\* futures::future::ok(v): resolves at its first poll.
ReadyTask(id, v) == [kind |-> "ready", id |-> id, val |-> v]

\* futures::future::err(e): fails at its first poll.
FailedTask(id, e) == [kind |-> "failed", id |-> id, err |-> e]

\* A leaf task that waits for I/O: each poll is NotReady, Ready or an error.
AsyncTask(id) == [kind |-> "async", id |-> id]

\* MaybeDone slots.
Pending(t) == [st |-> "Pending", task |-> t, val |-> NoValue]

Done(v) == [st |-> "Done", task |-> NoTask, val |-> v]

Gone == [st |-> "Gone", task |-> NoTask, val |-> NoValue]

(* --------------------------- apply results ---------------------------- *)

\* The result of one apply call: out is "Some"/"None" for the endpoints
\* that return Option<Task>, "Ok"/"Err" for the one-shot actions that return
\* Result<Output, Error>; pos is the cursor after the call, nid the next free
\* task id, log the apply calls made, in order.
AppliedEntry(path, e, before, after, res) ==
    [path |-> path, ep |-> e, before |-> before, after |-> after, out |-> res.out,
     err |-> res.err]

Matches(out) == out \in {"Some", "Ok"}

Result(out, err, task, pos, nid, log) ==
    [out |-> out, err |-> err, task |-> task, pos |-> pos, nid |-> nid, log |-> log]

(* ------------------------ primitive endpoints ------------------------- *)

\* segment(s): the literal is stored percent-encoded.
segment(s) == [kind |-> "segment", encoded |-> PercentEncode(s)]

\* MatchSegmentAction::apply with the cursor put back when the segment
\* differs.
MatchSegmentAction_apply_restoring(e, segs, pos, nid) ==
    LET s == CursorNext(segs, pos) IN
    IF s.item = None
    THEN Result("Err", "NOT_FOUND", NoTask, s.pos, nid, <<>>)
    ELSE IF s.item[1] = e.encoded
         THEN Result("Ok", "", ReadyTask(nid, Unit), s.pos, nid + 1, <<>>)
         ELSE Result("Err", "NOT_FOUND", NoTask, pos, nid, <<>>)

\* MatchSegmentAction::apply.
MatchSegmentAction_apply(e, segs, pos, nid) ==
    LET s == CursorNext(segs, pos) IN
    IF s.item = None
    THEN Result("Err", "NOT_FOUND", NoTask, s.pos, nid, <<>>)
    ELSE IF s.item[1] = e.encoded
         THEN Result("Ok", "", ReadyTask(nid, Unit), s.pos, nid + 1, <<>>)
         ELSE Result("Err", "NOT_FOUND", NoTask, s.pos, nid, <<>>)

\* <&str as Endpoint>::apply.
str_apply(e, segs, pos, nid) ==
    LET s == CursorNext(segs, pos)
        eq == IF s.item = None THEN FALSE ELSE s.item[1] = e.lit
    IN  IF ~eq
        THEN Result("Err", "Skipped", NoTask, s.pos, nid, <<>>)
        ELSE Result("Ok", "", ReadyTask(nid, Unit), s.pos, nid + 1, <<>>)

\* The loop of MatchPath::apply over Segments(segments), from index i on:
\* `matched = matched && *ctx.segments().next()? == *segment`. The cursor is
\* read only while matched is still true, and a missing segment returns None
\* at once (early).
RECURSIVE MatchPath_loop(_, _, _, _, _)
MatchPath_loop(segments, i, segs, pos, matched) ==
    IF i > Len(segments)
    THEN [early |-> FALSE, matched |-> matched, pos |-> pos]
    ELSE IF matched
         THEN LET s == CursorNext(segs, pos) IN
              IF s.item = None
              THEN [early |-> TRUE, matched |-> FALSE, pos |-> s.pos]
              ELSE MatchPath_loop(segments, i + 1, segs, s.pos,
                                  s.item[1] = segments[i])
         ELSE MatchPath_loop(segments, i + 1, segs, pos, FALSE)

\* MatchPath::apply that takes a path that ends early for a match.
MatchPath_apply_short(e, segs, pos, nid) ==
    IF e.kind = "match"
    THEN LET l == MatchPath_loop(e.segments, 1, segs, pos, TRUE) IN
         IF l.early \/ l.matched
         THEN Result("Some", "", ReadyTask(nid, Unit), l.pos, nid + 1, <<>>)
         ELSE Result("None", "", NoTask, l.pos, nid, <<>>)
    ELSE LET c == CursorCount(segs, pos) IN
         Result("Some", "", ReadyTask(nid, Unit), c.pos, nid + 1, <<>>)

\* MatchPath::apply that puts the cursor back to the start of the path when
\* it declines.
MatchPath_apply_resetting(e, segs, pos, nid) ==
    IF e.kind = "match"
    THEN LET l == MatchPath_loop(e.segments, 1, segs, pos, TRUE) IN
         IF ~l.early /\ l.matched
         THEN Result("Some", "", ReadyTask(nid, Unit), l.pos, nid + 1, <<>>)
         ELSE Result("None", "", NoTask, 0, nid, <<>>)
    ELSE LET c == CursorCount(segs, pos) IN
         Result("Some", "", ReadyTask(nid, Unit), c.pos, nid + 1, <<>>)

\* MatchPath::apply.
MatchPath_apply(e, segs, pos, nid) ==
    IF e.kind = "match"
    THEN LET l == MatchPath_loop(e.segments, 1, segs, pos, TRUE) IN
         IF ~l.early /\ l.matched
         THEN Result("Some", "", ReadyTask(nid, Unit), l.pos, nid + 1, <<>>)
         ELSE Result("None", "", NoTask, l.pos, nid, <<>>)
    ELSE LET c == CursorCount(segs, pos) IN
         Result("Some", "", ReadyTask(nid, Unit), c.pos, nid + 1, <<>>)

\* MatchEosAction::apply that looks at the next segment without taking it.
MatchEosAction_apply_peeking(e, segs, pos, nid) ==
    LET s == CursorNext(segs, pos) IN
    IF s.item = None
    THEN Result("Ok", "", ReadyTask(nid, Unit), pos, nid + 1, <<>>)
    ELSE Result("Err", "NOT_FOUND", NoTask, pos, nid, <<>>)

\* MatchEosAction::apply.
MatchEosAction_apply(e, segs, pos, nid) ==
    LET s == CursorNext(segs, pos) IN
    IF s.item = None
    THEN Result("Ok", "", ReadyTask(nid, Unit), s.pos, nid + 1, <<>>)
    ELSE Result("Err", "NOT_FOUND", NoTask, s.pos, nid, <<>>)

\* ExtractPath::apply that turns a decode error into a failing task.
ExtractPath_apply_failing(e, segs, pos, nid) ==
    LET s == CursorNext(segs, pos) IN
    IF s.item = None
    THEN Result("None", "", NoTask, s.pos, nid, <<>>)
    ELSE LET d == FromSegment(s.item[1]) IN
         IF d.ok
         THEN Result("Some", "", ReadyTask(nid, d.val), s.pos, nid + 1, <<>>)
         ELSE Result("Some", "", FailedTask(nid, d.err), s.pos, nid + 1, <<>>)

\* ExtractPath::apply.
ExtractPath_apply(e, segs, pos, nid) ==
    LET s == CursorNext(segs, pos) IN
    IF s.item = None
    THEN Result("None", "", NoTask, s.pos, nid, <<>>)
    ELSE LET d == FromSegment(s.item[1]) IN
         IF d.ok
         THEN Result("Some", "", ReadyTask(nid, d.val), s.pos, nid + 1, <<>>)
         ELSE Result("None", "", NoTask, s.pos, nid, <<>>)

\* BadRequest::new(e).into(): the error keeps the decode error as its cause.
BadRequest(e) == "BadRequest(" \o e \o ")"

\* NotPresent::new(..).into().
NotPresent == "NotPresent(The number of path segments is insufficient)"

\* ExtractPathRequired::apply that declines on a decode error.
ExtractPathRequired_apply_declining(e, segs, pos, nid) ==
    LET s == CursorNext(segs, pos) IN
    IF s.item = None
    THEN Result("Some", "", FailedTask(nid, NotPresent), s.pos, nid + 1, <<>>)
    ELSE LET d == FromSegment(s.item[1]) IN
         IF d.ok
         THEN Result("Some", "", ReadyTask(nid, d.val), s.pos, nid + 1, <<>>)
         ELSE Result("None", "", NoTask, s.pos, nid, <<>>)

\* ExtractPathRequired::apply: always Some(fut); fut is ok(val), or
\* err(BadRequest) on a decode error, or err(NotPresent) without a segment.
ExtractPathRequired_apply(e, segs, pos, nid) ==
    LET s == CursorNext(segs, pos) IN
    IF s.item = None
    THEN Result("Some", "", FailedTask(nid, NotPresent), s.pos, nid + 1, <<>>)
    ELSE LET d == FromSegment(s.item[1]) IN
         IF d.ok
         THEN Result("Some", "", ReadyTask(nid, d.val), s.pos, nid + 1, <<>>)
         ELSE Result("Some", "", FailedTask(nid, BadRequest(d.err)), s.pos, nid + 1, <<>>)

\* Option<T> as an output value.
OptV(o) == [tag |-> "option", s |-> "", n |-> 0, sub |-> o]

\* ExtractPathOptional::apply that declines without a segment.
ExtractPathOptional_apply_declining(e, segs, pos, nid) ==
    LET s == CursorNext(segs, pos) IN
    IF s.item = None
    THEN Result("None", "", NoTask, s.pos, nid, <<>>)
    ELSE LET d == FromSegment(s.item[1]) IN
         Result("Some", "", ReadyTask(nid, OptV(IF d.ok THEN Some(d.val) ELSE None)),
                s.pos, nid + 1, <<>>)

\* ExtractPathOptional::apply: always Some(ok(opt)); opt is None without a
\* segment and on a decode error.
ExtractPathOptional_apply(e, segs, pos, nid) ==
    LET s == CursorNext(segs, pos)
        opt == IF s.item = None
               THEN None
               ELSE LET d == FromSegment(s.item[1]) IN IF d.ok THEN Some(d.val) ELSE None
    IN  Result("Some", "", ReadyTask(nid, OptV(opt)), s.pos, nid + 1, <<>>)

\* percent_decode on the words of the model.
PercentDecode(s) ==
    CASE s = "a%20b" -> "a b"
      [] OTHER       -> s

\* The segments that remain at the cursor, in path order.
Remaining(segs, pos) == SubSeq(segs, pos + 1, Len(segs))

\* <Vec<String> as FromSegments>::from_segments: takes every segment that
\* remains and decodes each, in path order.
FromSegments(segs, pos) ==
    LET rest == Remaining(segs, pos) IN
    [ok |-> TRUE, pos |-> Len(segs),
     val |-> TupV([k \in 1..Len(rest) |-> StrV(PercentDecode(rest[k]))])]

\* ExtractPaths::apply: `T::from_segments(ctx.segments()).map(ok).ok()`.
ExtractPaths_apply(e, segs, pos, nid) ==
    LET d == FromSegments(segs, pos) IN
    IF d.ok
    THEN Result("Some", "", ReadyTask(nid, d.val), d.pos, nid + 1, <<>>)
    ELSE Result("None", "", NoTask, d.pos, nid, <<>>)

\* <i32 as FromEncodedStr>::from_encoded_str on the remaining path, given as
\* the segments it is made of: one segment of decimal digits parses.
FromEncodedStr(rest) ==
    IF Len(rest) = 1
    THEN FromSegment(rest[1])
    ELSE [ok |-> FALSE, val |-> NoValue, err |-> "ParseIntError"]

\* RemainsAction::apply without `drop(cx.by_ref().count())`.
RemainsAction_apply_staying(e, segs, pos, nid) ==
    LET result == FromEncodedStr(Remaining(segs, pos)) IN
    IF result.ok
    THEN Result("Ok", "", ReadyTask(nid, TupV(<<result.val>>)), pos, nid + 1, <<>>)
    ELSE Result("Err", BadRequest(result.err), NoTask, pos, nid, <<>>)

\* RemainsAction::apply: the remaining path is decoded, then the cursor is
\* run to its end, then the result is returned.
RemainsAction_apply(e, segs, pos, nid) ==
    LET result == FromEncodedStr(Remaining(segs, pos))
        c == CursorCount(segs, pos)
    IN  IF result.ok
        THEN Result("Ok", "", ReadyTask(nid, TupV(<<result.val>>)), c.pos, nid + 1, <<>>)
        ELSE Result("Err", BadRequest(result.err), NoTask, c.pos, nid, <<>>)

\* An endpoint that matches any request without reading the path and whose
\* task waits for I/O.
Pending_apply(e, segs, pos, nid) ==
    Result("Some", "", AsyncTask(nid), pos, nid + 1, <<>>)

(* -------------------------------- And --------------------------------- *)

\* The method of the request.
VARIABLE method

\* The content type of the request and whether its body decodes.
VARIABLE payload

RECURSIVE Apply(_, _, _, _, _)

\* And::apply that puts the cursor back where it found it when e2 declines.
And_apply_restoring(e, path, segs, pos, nid) ==
    LET r1 == Apply(e.e1, path \o <<1>>, segs, pos, nid) IN
    IF ~Matches(r1.out)
    THEN Result("None", "", NoTask, r1.pos, r1.nid, r1.log)
    ELSE LET r2 == Apply(e.e2, path \o <<2>>, segs, r1.pos, r1.nid) IN
         IF ~Matches(r2.out)
         THEN Result("None", "", NoTask, pos, r2.nid, r1.log \o r2.log)
         ELSE Result("Some", "",
                     [kind |-> "and", f1 |-> Pending(r1.task), f2 |-> Pending(r2.task)],
                     r2.pos, r2.nid, r1.log \o r2.log)

\* And::apply that applies e2 from the cursor And was entered with.
And_apply_rewound(e, path, segs, pos, nid) ==
    LET r1 == Apply(e.e1, path \o <<1>>, segs, pos, nid) IN
    IF ~Matches(r1.out)
    THEN Result("None", "", NoTask, r1.pos, r1.nid, r1.log)
    ELSE LET r2 == Apply(e.e2, path \o <<2>>, segs, pos, r1.nid) IN
         IF ~Matches(r2.out)
         THEN Result("None", "", NoTask, r2.pos, r2.nid, r1.log \o r2.log)
         ELSE Result("Some", "",
                     [kind |-> "and", f1 |-> Pending(r1.task), f2 |-> Pending(r2.task)],
                     r2.pos, r2.nid, r1.log \o r2.log)

\* And::apply: `let f1 = self.e1.apply(cx)?; let f2 = self.e2.apply(cx)?;`.
And_apply(e, path, segs, pos, nid) ==
    LET r1 == Apply(e.e1, path \o <<1>>, segs, pos, nid) IN
    IF ~Matches(r1.out)
    THEN Result("None", "", NoTask, r1.pos, r1.nid, r1.log)
    ELSE LET r2 == Apply(e.e2, path \o <<2>>, segs, r1.pos, r1.nid) IN
         IF ~Matches(r2.out)
         THEN Result("None", "", NoTask, r2.pos, r2.nid, r1.log \o r2.log)
         ELSE Result("Some", "",
                     [kind |-> "and", f1 |-> Pending(r1.task), f2 |-> Pending(r2.task)],
                     r2.pos, r2.nid, r1.log \o r2.log)

\* The loop of All::apply that leaves out a member that declines and goes on
\* with the next one.
RECURSIVE All_loop_skipping(_, _, _, _, _, _, _, _)
All_loop_skipping(inner, i, path, segs, pos, nid, elems, log) ==
    IF i > Len(inner)
    THEN Result("Some", "", [kind |-> "all", elems |-> elems], pos, nid, log)
    ELSE LET r == Apply(inner[i], path \o <<i>>, segs, pos, nid) IN
         IF ~Matches(r.out)
         THEN All_loop_skipping(inner, i + 1, path, segs, r.pos, r.nid, elems, log \o r.log)
         ELSE All_loop_skipping(inner, i + 1, path, segs, r.pos, r.nid,
                                Append(elems, Pending(r.task)), log \o r.log)

\* The loop of All::apply over self.inner, from index i on; elems are the
\* slots pushed so far. The first member that declines ends the loop.
RECURSIVE All_loop(_, _, _, _, _, _, _, _)
All_loop(inner, i, path, segs, pos, nid, elems, log) ==
    IF i > Len(inner)
    THEN Result("Some", "", [kind |-> "all", elems |-> elems], pos, nid, log)
    ELSE LET r == Apply(inner[i], path \o <<i>>, segs, pos, nid) IN
         IF ~Matches(r.out)
         THEN Result("None", "", NoTask, r.pos, r.nid, log \o r.log)
         ELSE All_loop(inner, i + 1, path, segs, r.pos, r.nid,
                       Append(elems, Pending(r.task)), log \o r.log)

\* All::apply.
All_apply(e, path, segs, pos, nid) ==
    All_loop(e.inner, 1, path, segs, pos, nid, <<>>, <<>>)

(* ------------------------------ method ------------------------------- *)

\* MatchMethod::apply that applies the wrapped endpoint before it compares
\* the method.
MatchMethod_apply_late(e, path, segs, pos, nid) ==
    LET r == Apply(e.endpoint, path \o <<1>>, segs, pos, nid) IN
    IF method = e.method
    THEN r
    ELSE Result("None", "", NoTask, r.pos, r.nid, r.log)

\* MatchMethod::apply, and the apply of MatchGet, MatchPost, ...:
\* `if *ctx.method() == self.method { self.endpoint.apply(ctx) } else { None }`.
MatchMethod_apply(e, path, segs, pos, nid) ==
    IF method = e.method
    THEN Apply(e.endpoint, path \o <<1>>, segs, pos, nid)
    ELSE Result("None", "", NoTask, pos, nid, <<>>)

(* ---------------------------- Or, OrStrict ---------------------------- *)

\* The task of an Or: the task of the branch that was selected, tagged.
OrTask(tag, t) == [kind |-> "or", tag |-> tag, inner |-> t]

\* Or::apply that applies the right endpoint from where the left one left
\* the cursor.
Or_apply_unreset(e, path, segs, pos, nid) ==
    LET r1 == Apply(e.e1, path \o <<1>>, segs, pos, nid)
        r2 == Apply(e.e2, path \o <<2>>, segs, r1.pos, r1.nid)
        log == r1.log \o r2.log
    IN  CASE Matches(r1.out) /\ Matches(r2.out) ->
                IF r1.pos >= r2.pos
                THEN Result("Some", "", OrTask("Left", r1.task), r1.pos, r2.nid, log)
                ELSE Result("Some", "", OrTask("Right", r2.task), r2.pos, r2.nid, log)
          [] Matches(r1.out) /\ ~Matches(r2.out) ->
                Result("Some", "", OrTask("Left", r1.task), r1.pos, r2.nid, log)
          [] ~Matches(r1.out) /\ Matches(r2.out) ->
                Result("Some", "", OrTask("Right", r2.task), r2.pos, r2.nid, log)
          [] OTHER -> Result("None", "", NoTask, r2.pos, r2.nid, log)

\* Or::apply that returns the left branch whenever it matches.
Or_apply_leftmost(e, path, segs, pos, nid) ==
    LET r1 == Apply(e.e1, path \o <<1>>, segs, pos, nid)
        r2 == Apply(e.e2, path \o <<2>>, segs, pos, r1.nid)
        log == r1.log \o r2.log
    IN  CASE Matches(r1.out) ->
                Result("Some", "", OrTask("Left", r1.task), r1.pos, r2.nid, log)
          [] ~Matches(r1.out) /\ Matches(r2.out) ->
                Result("Some", "", OrTask("Right", r2.task), r2.pos, r2.nid, log)
          [] OTHER -> Result("None", "", NoTask, r2.pos, r2.nid, log)

\* Or::apply: each branch is applied from the cursor Or was entered with.
\* When both match, the one that consumed more segments is selected, the
\* left one on a tie; when one matches, that one; when none does, Or
\* declines. The cursor is left where the selected branch left it.
Or_apply(e, path, segs, pos, nid) ==
    LET r1 == Apply(e.e1, path \o <<1>>, segs, pos, nid)
        r2 == Apply(e.e2, path \o <<2>>, segs, pos, r1.nid)
        log == r1.log \o r2.log
    IN  CASE Matches(r1.out) /\ Matches(r2.out) ->
                IF r1.pos >= r2.pos
                THEN Result("Some", "", OrTask("Left", r1.task), r1.pos, r2.nid, log)
                ELSE Result("Some", "", OrTask("Right", r2.task), r2.pos, r2.nid, log)
          [] Matches(r1.out) /\ ~Matches(r2.out) ->
                Result("Some", "", OrTask("Left", r1.task), r1.pos, r2.nid, log)
          [] ~Matches(r1.out) /\ Matches(r2.out) ->
                Result("Some", "", OrTask("Right", r2.task), r2.pos, r2.nid, log)
          [] OTHER -> Result("None", "", NoTask, r2.pos, r2.nid, log)

\* OrStrict::apply that applies the right endpoint as well when the left one
\* matches.
OrStrict_apply_both(e, path, segs, pos, nid) ==
    LET r1 == Apply(e.e1, path \o <<1>>, segs, pos, nid)
        r2 == Apply(e.e2, path \o <<2>>, segs, pos, r1.nid)
    IN  IF Matches(r1.out)
        THEN Result("Some", "", r1.task, r1.pos, r2.nid, r1.log \o r2.log)
        ELSE [r2 EXCEPT !.log = r1.log \o r2.log]

\* OrStrict::apply: when the left endpoint matches, its task is returned as
\* it is and the right endpoint is not applied; otherwise the right endpoint
\* is applied from the cursor OrStrict was entered with.
OrStrict_apply(e, path, segs, pos, nid) ==
    LET r1 == Apply(e.e1, path \o <<1>>, segs, pos, nid) IN
    IF Matches(r1.out)
    THEN Result("Some", "", r1.task, r1.pos, r1.nid, r1.log)
    ELSE LET r2 == Apply(e.e2, path \o <<2>>, segs, pos, r1.nid) IN
         [r2 EXCEPT !.log = r1.log \o r2.log]

(* -------------------------------- body -------------------------------- *)

\* BodyTask<T>: Init, Recv(body) or Done; stream is the state of the body
\* stream the task holds in Recv.
BodyTask(id, ty, st) == [kind |-> "body", id |-> id, ty |-> ty, st |-> st, stream |-> "open"]

BodyStreamTask(id) == [kind |-> "body_stream", id |-> id]

\* T::is_match(input): true by default (String), and true of a JSON type
\* when the content type of the request is JSON.
FromBody_is_match(ty) ==
    IF ty = "Json" THEN payload.content_type = "application/json" ELSE TRUE

\* Body::apply that starts to receive the body at once.
Body_apply_receiving(e, segs, pos, nid) ==
    IF FromBody_is_match(e.ty)
    THEN Result("Some", "", BodyTask(nid, e.ty, "Recv"), pos, nid + 1, <<>>)
    ELSE Result("None", "", NoTask, pos, nid, <<>>)

\* Body::apply: `match T::is_match(cx.input()) { true => Some(BodyTask::Init),
\* false => None }`.
Body_apply(e, segs, pos, nid) ==
    IF FromBody_is_match(e.ty)
    THEN Result("Some", "", BodyTask(nid, e.ty, "Init"), pos, nid + 1, <<>>)
    ELSE Result("None", "", NoTask, pos, nid, <<>>)

\* BodyStream::apply.
BodyStream_apply(e, segs, pos, nid) ==
    Result("Some", "", BodyStreamTask(nid), pos, nid + 1, <<>>)

(* ------------------------ one-shot path routes ------------------------ *)

\* ParamAction::apply that yields a default value without a segment.
ParamAction_apply_defaulting(e, segs, pos, nid) ==
    LET s == CursorNext(segs, pos) IN
    IF s.item = None
    THEN Result("Ok", "", ReadyTask(nid, TupV(<<IntV(0)>>)), s.pos, nid + 1, <<>>)
    ELSE LET x == FromEncodedStr(<<s.item[1]>>) IN
         IF x.ok
         THEN Result("Ok", "", ReadyTask(nid, TupV(<<x.val>>)), s.pos, nid + 1, <<>>)
         ELSE Result("Err", BadRequest(x.err), NoTask, s.pos, nid, <<>>)

\* ParamAction::apply: `let s = cx.next().ok_or_else(|| NOT_FOUND)?;
\* let x = T::from_encoded_str(s).map_err(BadRequest::from)?; Ok((x,))`.
ParamAction_apply(e, segs, pos, nid) ==
    LET s == CursorNext(segs, pos) IN
    IF s.item = None
    THEN Result("Err", "NOT_FOUND", NoTask, s.pos, nid, <<>>)
    ELSE LET x == FromEncodedStr(<<s.item[1]>>) IN
         IF x.ok
         THEN Result("Ok", "", ReadyTask(nid, TupV(<<x.val>>)), s.pos, nid + 1, <<>>)
         ELSE Result("Err", BadRequest(x.err), NoTask, s.pos, nid, <<>>)

\* path!(@get "/s1/../sn/<u32>"): the literals, then a parameter; the first
\* action that returns an error ends the chain with that error.
RECURSIVE Route_loop(_, _, _, _, _)
Route_loop(e, i, segs, pos, nid) ==
    IF i > Len(e.segments)
    THEN ParamAction_apply(e, segs, pos, nid)
    ELSE LET r == MatchSegmentAction_apply(segment(e.segments[i]), segs, pos, nid) IN
         IF r.out = "Err"
         THEN r
         ELSE Route_loop(e, i + 1, segs, r.pos, nid)

Route_apply(e, segs, pos, nid) == Route_loop(e, 1, segs, pos, nid)

(* ----------------------- Map, Recover, OrElse, AndThen ----------------- *)

\* Id(Some(id)) and Id(None) of test_recover.
Id(o) == [tag |-> "Id", s |-> "", n |-> 0, sub |-> o]

\* The task of e.map(f), e.recover(f), e.or_else(f): the task of e and f.
WrapTask(kind, t, f) == [kind |-> kind, inner |-> t, f |-> f]

\* Map::apply: the task of the wrapped endpoint, with f on its value.
Map_apply(e, path, segs, pos, nid) ==
    LET r == Apply(e.endpoint, path \o <<1>>, segs, pos, nid) IN
    IF Matches(r.out)
    THEN Result(r.out, "", WrapTask("map", r.task, "Id"), r.pos, r.nid, r.log)
    ELSE Result(r.out, r.err, NoTask, r.pos, r.nid, r.log)

\* What the closure of recover / or_else makes of an error.
Recovery(f, err) ==
    IF f = "Ok"
    THEN [ok |-> TRUE, val |-> Id(None), err |-> ""]
    ELSE [ok |-> FALSE, val |-> NoValue, err |-> "Unrecovered(" \o err \o ")"]

\* Recover::apply: the error of the action of the wrapped endpoint goes to
\* f; a wrapped endpoint that returns None is passed on as None.
Recover_apply(e, path, segs, pos, nid) ==
    LET r == Apply(e.endpoint, path \o <<1>>, segs, pos, nid)
        x == Recovery(e.f, r.err)
    IN  CASE Matches(r.out) ->
                Result(r.out, "", WrapTask("recover", r.task, e.f), r.pos, r.nid, r.log)
          [] r.out = "None" -> Result("None", "", NoTask, r.pos, r.nid, r.log)
          [] r.out = "Err" /\ x.ok ->
                Result("Ok", "", ReadyTask(r.nid, x.val), r.pos, r.nid + 1, r.log)
          [] r.out = "Err" /\ ~x.ok -> Result("Err", x.err, NoTask, r.pos, r.nid, r.log)

\* OrElse::apply that answers a decline of the wrapped endpoint with the
\* future of f.
OrElse_apply_catching(e, path, segs, pos, nid) ==
    LET r == Apply(e.endpoint, path \o <<1>>, segs, pos, nid)
        x == Recovery(e.f, "NoRoute")
    IN  IF ~Matches(r.out)
        THEN Result("Some", "",
                    IF x.ok THEN ReadyTask(r.nid, x.val) ELSE FailedTask(r.nid, x.err),
                    r.pos, r.nid + 1, r.log)
        ELSE Result("Some", "", WrapTask("or_else", r.task, e.f), r.pos, r.nid, r.log)

\* OrElse::apply: `let task = try_opt!(self.endpoint.apply(ctx));
\* Some(task::or_else::OrElse { task, f })`.
OrElse_apply(e, path, segs, pos, nid) ==
    LET r == Apply(e.endpoint, path \o <<1>>, segs, pos, nid) IN
        IF ~Matches(r.out)
        THEN Result("None", "", NoTask, r.pos, r.nid, r.log)
        ELSE Result("Some", "", WrapTask("or_else", r.task, e.f), r.pos, r.nid, r.log)

\* The task of e.and_then(f): the first stage, then the task f builds; fid
\* is the id of that task, called the number of calls of f.
AndThenTask(t, f, fid) ==
    [kind |-> "and_then", st |-> "First", inner |-> t, f |-> f, fid |-> fid, called |-> 0]

\* AndThen::apply.
AndThen_apply(e, path, segs, pos, nid) ==
    LET r == Apply(e.endpoint, path \o <<1>>, segs, pos, nid) IN
    IF Matches(r.out)
    THEN Result(r.out, "", AndThenTask(r.task, e.f, r.nid), r.pos, r.nid + 1, r.log)
    ELSE Result(r.out, r.err, NoTask, r.pos, r.nid, r.log)

\* Endpoint::apply, dispatched on the endpoint's type; every call is logged
\* with the cursor before and after it.
Apply(e, path, segs, pos, nid) ==
    LET r == CASE e.kind = "segment" -> MatchSegmentAction_apply(e, segs, pos, nid)
               [] e.kind = "str" -> str_apply(e, segs, pos, nid)
               [] e.kind \in {"match", "match_all"} -> MatchPath_apply(e, segs, pos, nid)
               [] e.kind = "eos" -> MatchEosAction_apply(e, segs, pos, nid)
               [] e.kind = "path" -> ExtractPath_apply(e, segs, pos, nid)
               [] e.kind = "path_req" -> ExtractPathRequired_apply(e, segs, pos, nid)
               [] e.kind = "path_opt" -> ExtractPathOptional_apply(e, segs, pos, nid)
               [] e.kind = "paths" -> ExtractPaths_apply(e, segs, pos, nid)
               [] e.kind = "remains" -> RemainsAction_apply(e, segs, pos, nid)
               [] e.kind = "pending" -> Pending_apply(e, segs, pos, nid)
               [] e.kind = "and" -> And_apply(e, path, segs, pos, nid)
               [] e.kind = "all" -> All_apply(e, path, segs, pos, nid)
               [] e.kind = "method" -> MatchMethod_apply(e, path, segs, pos, nid)
               [] e.kind = "body" -> Body_apply(e, segs, pos, nid)
               [] e.kind = "body_stream" -> BodyStream_apply(e, segs, pos, nid)
               [] e.kind = "param" -> ParamAction_apply(e, segs, pos, nid)
               [] e.kind = "route" -> Route_apply(e, segs, pos, nid)
               [] e.kind = "map" -> Map_apply(e, path, segs, pos, nid)
               [] e.kind = "recover" -> Recover_apply(e, path, segs, pos, nid)
               [] e.kind = "or_else" -> OrElse_apply(e, path, segs, pos, nid)
               [] e.kind = "and_then" -> AndThen_apply(e, path, segs, pos, nid)
               [] e.kind = "or" -> Or_apply(e, path, segs, pos, nid)
               [] e.kind = "or_strict" -> OrStrict_apply(e, path, segs, pos, nid)
    IN  [r EXCEPT !.log = r.log \o <<AppliedEntry(path, e, pos, r.pos, r)>>]

(* ------------------------------ polling ------------------------------- *)

\* What one poll of a leaf that waits for I/O can return.
Outcomes == {"NotReady", "Ready", "Err"}

\* The value and the error leaf task id resolves to.
LeafVal(id) == StrV(CASE id = 1 -> "v1" [] id = 2 -> "v2" [] id = 3 -> "v3" [] OTHER -> "v")

LeafErr(id) == CASE id = 1 -> "e1" [] id = 2 -> "e2" [] id = 3 -> "e3" [] OTHER -> "e"

\* A task that has yielded its final result; polling it again panics.
Spent(id) == [kind |-> "spent", id |-> id]

\* The result of one poll_task call: res is "NotReady", "Ready", "Err" or
\* "Panic", task the task after the call, log the leaf polls made, in order.
Polled(res, val, err, task, log) ==
    [res |-> res, val |-> val, err |-> err, task |-> task, log |-> log]

LeafPoll(id, out, val, err) ==
    [id |-> id, out |-> out, val |-> val, err |-> err, took |-> FALSE]

\* The task context of one poll: io[id] is what the I/O of leaf id has to
\* offer, body is the body handle of the input, "Some" until it is taken.
Cx(io, body) == [io |-> io, body |-> body]

\* The task context after the leaf polls of log: the body handle is gone
\* once one of them has taken it.
After(inp, log) ==
    IF \E m \in DOMAIN log : log[m].took THEN [inp EXCEPT !.body = "None"] ELSE inp

\* poll of a leaf task; inp is the task context.
Leaf_poll(t, inp) ==
    CASE t.kind = "ready" ->
            Polled("Ready", t.val, "", Spent(t.id), <<LeafPoll(t.id, "Ready", t.val, "")>>)
      [] t.kind = "failed" ->
            Polled("Err", NoValue, t.err, Spent(t.id), <<LeafPoll(t.id, "Err", NoValue, t.err)>>)
      [] t.kind = "async" /\ inp.io[t.id] = "NotReady" ->
            Polled("NotReady", NoValue, "", t, <<LeafPoll(t.id, "NotReady", NoValue, "")>>)
      [] t.kind = "async" /\ inp.io[t.id] = "Ready" ->
            Polled("Ready", LeafVal(t.id), "", Spent(t.id),
                   <<LeafPoll(t.id, "Ready", LeafVal(t.id), "")>>)
      [] t.kind = "async" /\ inp.io[t.id] = "Err" ->
            Polled("Err", NoValue, LeafErr(t.id), Spent(t.id),
                   <<LeafPoll(t.id, "Err", NoValue, LeafErr(t.id))>>)
      [] t.kind = "spent" ->
            Polled("Panic", NoValue, "", t, <<LeafPoll(t.id, "Panic", NoValue, "")>>)

\* T::from_body(buf, input) on the body of the request.
FromBody_from_body(ty) ==
    IF payload.valid
    THEN [ok |-> TRUE, val |-> StrV("body"), err |-> ""]
    ELSE [ok |-> FALSE, val |-> NoValue,
          err |-> IF ty = "Json" THEN "JsonError" ELSE "Utf8Error"]

\* The Recv arm of BodyTask::poll_task that decodes what has arrived so far
\* without waiting for the whole body.
BodyTask_recv_hasty(t, inp, took) ==
    LET o == IF inp.io[t.id] = "NotReady" THEN "Ready" ELSE inp.io[t.id]
        d == FromBody_from_body(t.ty)
        E(out, val, err) == [LeafPoll(t.id, out, val, err) EXCEPT !.took = took]
    IN  CASE o = "Err" ->
                Polled("Err", NoValue, "BodyError", [t EXCEPT !.stream = "ended"],
                       <<E("Err", NoValue, "BodyError")>>)
          [] o = "Ready" /\ d.ok ->
                Polled("Ready", d.val, "", [t EXCEPT !.stream = "ended"],
                       <<E("Ready", d.val, "")>>)
          [] o = "Ready" /\ ~d.ok ->
                Polled("Err", NoValue, BadRequest(d.err), [t EXCEPT !.stream = "ended"],
                       <<E("Err", NoValue, BadRequest(d.err))>>)
          [] o = "Panic" ->
                Polled("Panic", NoValue, "", t, <<E("Panic", NoValue, "")>>)

\* The Recv arm of BodyTask::poll_task: `let buf = try_ready!(body.poll());
\* let body = T::from_body(buf, ..).map_err(BadRequest::new)?;
\* return Ok(body.into())`. It returns without assigning to *self, so the
\* task stays in Recv. took tells that the body was taken in this poll.
BodyTask_recv(t, inp, took) ==
    LET o == inp.io[t.id]
        d == FromBody_from_body(t.ty)
        E(out, val, err) == [LeafPoll(t.id, out, val, err) EXCEPT !.took = took]
    IN  CASE o = "NotReady" ->
                Polled("NotReady", NoValue, "", t, <<E("NotReady", NoValue, "")>>)
          [] o = "Err" ->
                Polled("Err", NoValue, "BodyError", [t EXCEPT !.stream = "ended"],
                       <<E("Err", NoValue, "BodyError")>>)
          [] o = "Ready" /\ d.ok ->
                Polled("Ready", d.val, "", [t EXCEPT !.stream = "ended"],
                       <<E("Ready", d.val, "")>>)
          [] o = "Ready" /\ ~d.ok ->
                Polled("Err", NoValue, BadRequest(d.err), [t EXCEPT !.stream = "ended"],
                       <<E("Err", NoValue, BadRequest(d.err))>>)
          [] o = "Panic" ->
                Polled("Panic", NoValue, "", t, <<E("Panic", NoValue, "")>>)

\* BodyTask::poll_task that takes a copy of the body handle and leaves the
\* handle in the input.
BodyTask_poll_task_sharing(t, inp) ==
    CASE t.st = "Init" -> BodyTask_recv([t EXCEPT !.st = "Recv"], inp, FALSE)
      [] t.st = "Recv" -> BodyTask_recv(t, inp, FALSE)
      [] t.st = "Done" ->
            Polled("Panic", NoValue, "", t,
                   <<LeafPoll(t.id, "Panic", NoValue, "cannot resolve/reject twice")>>)

\* BodyTask::poll_task: Init takes the body out of the input (a panic when
\* it is gone) and goes on as Recv in the same poll; Recv polls the body;
\* Done panics.
BodyTask_poll_task(t, inp) ==
    CASE t.st = "Init" /\ inp.body = "None" ->
            Polled("Panic", NoValue, "", t,
                   <<LeafPoll(t.id, "Panic", NoValue, "The body has already taken")>>)
      [] t.st = "Init" /\ inp.body = "Some" ->
            BodyTask_recv([t EXCEPT !.st = "Recv"], inp, TRUE)
      [] t.st = "Recv" -> BodyTask_recv(t, inp, FALSE)
      [] t.st = "Done" ->
            Polled("Panic", NoValue, "", t,
                   <<LeafPoll(t.id, "Panic", NoValue, "cannot resolve/reject twice")>>)

\* BodyStreamTask::poll_task: `cx.input_mut().body().expect(..)`.
BodyStreamTask_poll_task(t, inp) ==
    IF inp.body = "None"
    THEN Polled("Panic", NoValue, "", t,
                <<LeafPoll(t.id, "Panic", NoValue, "cannot take a body twice")>>)
    ELSE Polled("Ready", StrV("BodyStream"), "", t,
                <<[LeafPoll(t.id, "Ready", StrV("BodyStream"), "") EXCEPT !.took = TRUE]>>)

RECURSIVE Task_poll(_, _)

\* MaybeDone::poll_done: a Pending slot polls its task and keeps the item
\* when it is Ready; a Done slot answers true without polling; a Gone slot
\* panics. done is the Ok(bool).
MaybeDone_poll_done(slot, inp) ==
    CASE slot.st = "Pending" ->
            LET r == Task_poll(slot.task, inp) IN
            (CASE r.res = "Ready" ->
                    [res |-> "Ok", done |-> TRUE, err |-> "", slot |-> Done(r.val), log |-> r.log]
              [] r.res = "NotReady" ->
                    [res |-> "Ok", done |-> FALSE, err |-> "", slot |-> Pending(r.task), log |-> r.log]
              [] r.res = "Err" ->
                    [res |-> "Err", done |-> FALSE, err |-> r.err, slot |-> Pending(r.task), log |-> r.log]
              [] r.res = "Panic" ->
                    [res |-> "Panic", done |-> FALSE, err |-> "", slot |-> Pending(r.task), log |-> r.log])
      [] slot.st = "Done" ->
            [res |-> "Ok", done |-> TRUE, err |-> "", slot |-> slot, log |-> <<>>]
      [] slot.st = "Gone" ->
            [res |-> "Panic", done |-> FALSE, err |-> "", slot |-> slot, log |-> <<>>]

\* MaybeDone::take_item: the item of a Done slot, which becomes Gone.
MaybeDone_take_item(slot) == slot.val

\* MaybeDone::erase.
MaybeDone_erase(slot) == Gone

\* The Err arms of AndTask::poll_task without `self.f1.erase()`.
AndTask_fail_keeping(t, f1, f2, e, log) ==
    Polled("Err", NoValue, e, [t EXCEPT !.f1 = f1, !.f2 = MaybeDone_erase(f2)], log)

\* The Err arms of AndTask::poll_task: `self.f1.erase(); self.f2.erase();
\* return Err(e)`. f1 and f2 are the slots as the round left them.
AndTask_fail(t, f1, f2, e, log) ==
    Polled("Err", NoValue, e,
           [t EXCEPT !.f1 = MaybeDone_erase(f1), !.f2 = MaybeDone_erase(f2)], log)

\* The end of AndTask::poll_task with the pair built right to left.
AndTask_finish_swapped(t, f1, f2, all_done, log) ==
    IF all_done
    THEN Polled("Ready", TupV(<<MaybeDone_take_item(f2), MaybeDone_take_item(f1)>>), "",
                [t EXCEPT !.f1 = Gone, !.f2 = Gone], log)
    ELSE Polled("NotReady", NoValue, "", [t EXCEPT !.f1 = f1, !.f2 = f2], log)

\* The end of AndTask::poll_task that returns NotReady whatever all_done is.
AndTask_finish_waiting(t, f1, f2, all_done, log) ==
    Polled("NotReady", NoValue, "", [t EXCEPT !.f1 = f1, !.f2 = f2], log)

\* The end of AndTask::poll_task: `if all_done { Ok(Ready((self.f1.take_item(),
\* self.f2.take_item()))) } else { Ok(NotReady) }`.
AndTask_finish(t, f1, f2, all_done, log) ==
    IF all_done
    THEN Polled("Ready", TupV(<<MaybeDone_take_item(f1), MaybeDone_take_item(f2)>>), "",
                [t EXCEPT !.f1 = Gone, !.f2 = Gone], log)
    ELSE Polled("NotReady", NoValue, "", [t EXCEPT !.f1 = f1, !.f2 = f2], log)

\* AndTask::poll_task that polls f2 first and f1 after it.
AndTask_poll_task_rightfirst(t, inp) ==
    LET d2 == MaybeDone_poll_done(t.f2, inp)
        d1 == MaybeDone_poll_done(t.f1, After(inp, d2.log))
        log == d2.log \o d1.log
    IN  CASE d1.res = "Panic" \/ d2.res = "Panic" ->
                Polled("Panic", NoValue, "", [t EXCEPT !.f1 = d1.slot, !.f2 = d2.slot], log)
          [] d1.res = "Err" -> AndTask_fail(t, d1.slot, d2.slot, d1.err, log)
          [] d1.res = "Ok" /\ d2.res = "Err" -> AndTask_fail(t, d1.slot, d2.slot, d2.err, log)
          [] d1.res = "Ok" /\ d2.res = "Ok" ->
                AndTask_finish(t, d1.slot, d2.slot, d1.done /\ d2.done, log)

\* AndTask::poll_task that polls f2 before it looks at the result of f1.
AndTask_poll_task_eager(t, inp) ==
    LET d1 == MaybeDone_poll_done(t.f1, inp)
        d2 == MaybeDone_poll_done(t.f2, After(inp, d1.log))
        log == d1.log \o d2.log
    IN  CASE d1.res = "Panic" \/ (d1.res = "Ok" /\ d2.res = "Panic") ->
                Polled("Panic", NoValue, "", [t EXCEPT !.f1 = d1.slot, !.f2 = d2.slot], log)
          [] d1.res = "Err" -> AndTask_fail(t, d1.slot, d2.slot, d1.err, log)
          [] d1.res = "Ok" /\ d2.res = "Err" -> AndTask_fail(t, d1.slot, d2.slot, d2.err, log)
          [] d1.res = "Ok" /\ d2.res = "Ok" ->
                AndTask_finish(t, d1.slot, d2.slot, d1.done /\ d2.done, log)

\* AndTask::poll_task that puts the tasks back into the slots after every
\* round, resolved or not.
AndTask_poll_task_forgetful(t, inp) ==
    LET d1 == MaybeDone_poll_done(t.f1, inp) IN
    CASE d1.res = "Panic" ->
            Polled("Panic", NoValue, "", [t EXCEPT !.f1 = d1.slot], d1.log)
      [] d1.res = "Err" -> AndTask_fail(t, d1.slot, t.f2, d1.err, d1.log)
      [] d1.res = "Ok" ->
            LET d2 == MaybeDone_poll_done(t.f2, After(inp, d1.log))
                log == d1.log \o d2.log
            IN  CASE d2.res = "Panic" ->
                        Polled("Panic", NoValue, "",
                               [t EXCEPT !.f1 = d1.slot, !.f2 = d2.slot], log)
                  [] d2.res = "Err" -> AndTask_fail(t, d1.slot, d2.slot, d2.err, log)
                  [] d2.res = "Ok" ->
                        IF d1.done /\ d2.done
                        THEN AndTask_finish(t, d1.slot, d2.slot, TRUE, log)
                        ELSE AndTask_finish(t, t.f1, t.f2, FALSE, log)

\* AndTask::poll_task: f1 is polled, then f2 unless f1 failed.
AndTask_poll_task(t, inp) ==
    LET d1 == MaybeDone_poll_done(t.f1, inp) IN
    CASE d1.res = "Panic" ->
            Polled("Panic", NoValue, "", [t EXCEPT !.f1 = d1.slot], d1.log)
      [] d1.res = "Err" -> AndTask_fail(t, d1.slot, t.f2, d1.err, d1.log)
      [] d1.res = "Ok" ->
            LET d2 == MaybeDone_poll_done(t.f2, After(inp, d1.log))
                log == d1.log \o d2.log
            IN  CASE d2.res = "Panic" ->
                        Polled("Panic", NoValue, "",
                               [t EXCEPT !.f1 = d1.slot, !.f2 = d2.slot], log)
                  [] d2.res = "Err" -> AndTask_fail(t, d1.slot, d2.slot, d2.err, log)
                  [] d2.res = "Ok" ->
                        AndTask_finish(t, d1.slot, d2.slot, d1.done /\ d2.done, log)

\* The loop of AllTask::poll_task with `all_done = done` for
\* `all_done = all_done & done`.
RECURSIVE AllTask_loop_overwriting(_, _, _, _, _)
AllTask_loop_overwriting(elems, i, inp, all_done, log) ==
    IF i > Len(elems)
    THEN [res |-> "Ok", done |-> all_done, err |-> "", elems |-> elems, log |-> log]
    ELSE LET d == MaybeDone_poll_done(elems[i], inp) IN
         CASE d.res = "Ok" ->
                 AllTask_loop_overwriting([elems EXCEPT ![i] = d.slot], i + 1,
                                          After(inp, d.log),
                                          d.done, log \o d.log)
           [] d.res = "Err" ->
                 [res |-> "Err", done |-> FALSE, err |-> d.err, elems |-> <<>>,
                  log |-> log \o d.log]
           [] d.res = "Panic" ->
                 [res |-> "Panic", done |-> FALSE, err |-> "",
                  elems |-> [elems EXCEPT ![i] = d.slot], log |-> log \o d.log]

\* The loop of AllTask::poll_task that polls the slots behind a failed one
\* before it returns the error.
RECURSIVE AllTask_loop_continuing(_, _, _, _, _)
AllTask_loop_continuing(elems, i, inp, all_done, log) ==
    IF i > Len(elems)
    THEN [res |-> "Ok", done |-> all_done, err |-> "", elems |-> elems, log |-> log]
    ELSE LET d == MaybeDone_poll_done(elems[i], inp) IN
         CASE d.res = "Ok" ->
                 AllTask_loop_continuing([elems EXCEPT ![i] = d.slot], i + 1,
                                         After(inp, d.log),
                                         all_done /\ d.done, log \o d.log)
           [] d.res = "Err" ->
                 LET l == AllTask_loop_continuing([elems EXCEPT ![i] = Gone], i + 1,
                                                  After(inp, d.log),
                                                  FALSE, <<>>)
                 IN  [res |-> "Err", done |-> FALSE, err |-> d.err, elems |-> <<>>,
                      log |-> log \o d.log \o l.log]
           [] d.res = "Panic" ->
                 [res |-> "Panic", done |-> FALSE, err |-> "",
                  elems |-> [elems EXCEPT ![i] = d.slot], log |-> log \o d.log]

\* The loop of AllTask::poll_task over self.elems, from index i on. The
\* first slot whose poll fails ends the loop.
RECURSIVE AllTask_loop(_, _, _, _, _)
AllTask_loop(elems, i, inp, all_done, log) ==
    IF i > Len(elems)
    THEN [res |-> "Ok", done |-> all_done, err |-> "", elems |-> elems, log |-> log]
    ELSE LET d == MaybeDone_poll_done(elems[i], inp) IN
         CASE d.res = "Ok" ->
                 AllTask_loop([elems EXCEPT ![i] = d.slot], i + 1, After(inp, d.log),
                              all_done /\ d.done, log \o d.log)
           [] d.res = "Err" ->
                 [res |-> "Err", done |-> FALSE, err |-> d.err, elems |-> <<>>,
                  log |-> log \o d.log]
           [] d.res = "Panic" ->
                 [res |-> "Panic", done |-> FALSE, err |-> "",
                  elems |-> [elems EXCEPT ![i] = d.slot], log |-> log \o d.log]

\* AllTask::poll_task.
AllTask_poll_task(t, inp) ==
    LET l == AllTask_loop(t.elems, 1, inp, TRUE, <<>>) IN
    CASE l.res = "Panic" ->
            Polled("Panic", NoValue, "", [t EXCEPT !.elems = l.elems], l.log)
      [] l.res = "Err" ->
            Polled("Err", NoValue, l.err, [t EXCEPT !.elems = <<>>], l.log)
      [] l.res = "Ok" ->
            IF l.done
            THEN Polled("Ready",
                        TupV([k \in 1..Len(l.elems) |-> MaybeDone_take_item(l.elems[k])]),
                        "", [t EXCEPT !.elems = <<>>], l.log)
            ELSE Polled("NotReady", NoValue, "", [t EXCEPT !.elems = l.elems], l.log)

\* The output of an Or: the output of the selected branch, tagged.
Wrapped(tag, v) == [tag |-> tag, s |-> "", n |-> 0, sub |-> <<v>>]

\* The poll of the task of a Map: f is applied to the value.
MapTask_poll(t, inp) ==
    LET r == Task_poll(t.inner, inp) IN
    Polled(r.res, IF r.res = "Ready" THEN Id(Some(r.val)) ELSE NoValue, r.err,
           [t EXCEPT !.inner = r.task], r.log)

\* The poll of the task of a Recover or an OrElse: a value is passed on, an
\* error goes to f, whose future is the result.
RecoverTask_poll(t, inp) ==
    LET r == Task_poll(t.inner, inp)
        x == Recovery(t.f, r.err)
        next == [t EXCEPT !.inner = r.task]
    IN  CASE r.res = "Err" /\ x.ok -> Polled("Ready", x.val, "", next, r.log)
          [] r.res = "Err" /\ ~x.ok -> Polled("Err", NoValue, x.err, next, r.log)
          [] OTHER -> Polled(r.res, r.val, r.err, next, r.log)

\* The task f of and_then builds from the output of the first stage.
AndThen_f(f, fid) ==
    CASE f = "Ok" -> ReadyTask(fid, StrV("Bar"))
      [] f = "Err" -> FailedTask(fid, BadRequest("Bar"))
      [] f = "Pending" -> AsyncTask(fid)

\* The poll of the task of an AndThen that goes on to f after an error of
\* the first stage.
AndThenTask_poll_regardless(t, inp) ==
    LET r == Task_poll(t.inner, inp) IN
    IF t.st = "First" /\ r.res \in {"Ready", "Err"}
    THEN LET r2 == Task_poll(AndThen_f(t.f, t.fid), inp) IN
         Polled(r2.res, r2.val, r2.err,
                [t EXCEPT !.st = "Second", !.inner = r2.task, !.called = 1],
                r.log \o r2.log)
    ELSE Polled(r.res, r.val, r.err, [t EXCEPT !.inner = r.task], r.log)

\* The poll of the task of an AndThen: the first stage is polled; when it is
\* Ready, f is called with its output and the task f returns is polled in
\* the same call and from then on; an error of the first stage is returned
\* as it is.
AndThenTask_poll(t, inp) ==
    LET r == Task_poll(t.inner, inp) IN
    IF t.st = "First" /\ r.res = "Ready"
    THEN LET r2 == Task_poll(AndThen_f(t.f, t.fid), inp) IN
         Polled(r2.res, r2.val, r2.err,
                [t EXCEPT !.st = "Second", !.inner = r2.task, !.called = 1],
                r.log \o r2.log)
    ELSE Polled(r.res, r.val, r.err, [t EXCEPT !.inner = r.task], r.log)

\* The poll of the task of an Or: the selected branch is polled and its
\* value is tagged.
OrTask_poll(t, inp) ==
    LET r == Task_poll(t.inner, inp) IN
    Polled(r.res, IF r.res = "Ready" THEN Wrapped(t.tag, r.val) ELSE NoValue, r.err,
           [t EXCEPT !.inner = r.task], r.log)

\* Task::poll_task, dispatched on the task's type.
Task_poll(t, inp) ==
    CASE t.kind = "and" -> AndTask_poll_task(t, inp)
      [] t.kind = "all" -> AllTask_poll_task(t, inp)
      [] t.kind = "or" -> OrTask_poll(t, inp)
      [] t.kind = "body" -> BodyTask_poll_task(t, inp)
      [] t.kind = "body_stream" -> BodyStreamTask_poll_task(t, inp)
      [] t.kind = "map" -> MapTask_poll(t, inp)
      [] t.kind \in {"recover", "or_else"} -> RecoverTask_poll(t, inp)
      [] t.kind = "and_then" -> AndThenTask_poll(t, inp)
      [] OTHER -> Leaf_poll(t, inp)

(* ----------------------------- endpoints ------------------------------ *)

\* Longest literal path of a MatchPath, in segments.
MaxMatch == 3

Literals == {"foo", "bar", "a b"}

MatchLiterals == {"foo", "bar"}

SegmentEndpoints == {segment(s) : s \in Literals}

StrEndpoints == {[kind |-> "str", lit |-> s] : s \in MatchLiterals}

MatchPathEndpoints ==
    {[kind |-> "match", segments |-> ss] :
        ss \in UNION {[1..n -> MatchLiterals] : n \in 1..MaxMatch}}
    \cup {[kind |-> "match_all"]}

eos == [kind |-> "eos"]

path == [kind |-> "path"]

path_req == [kind |-> "path_req"]

path_opt == [kind |-> "path_opt"]

paths == [kind |-> "paths"]

remains == [kind |-> "remains"]

pending == [kind |-> "pending"]

Extractors == {path, path_req, path_opt, paths, remains}

Primitives ==
    SegmentEndpoints \cup StrEndpoints \cup MatchPathEndpoints \cup Extractors
    \cup {eos, pending}

\* The operands the combinators are built from.
Operands ==
    {segment("foo"), [kind |-> "match", segments |-> <<"foo", "bar">>], eos, path, pending}

and(a, b) == [kind |-> "and", e1 |-> a, e2 |-> b]

AndEndpoints == {and(a, b) : a \in Operands, b \in Operands}

ChainOperands == {segment("foo"), path, pending}

AndChains ==
    {and(and(a, b), c) : a \in ChainOperands, b \in ChainOperands, c \in ChainOperands}
    \cup {and(a, and(b, c)) : a \in ChainOperands, b \in ChainOperands, c \in ChainOperands}

\* Largest number of members of an All.
MaxAll == 3

all(members) == [kind |-> "all", inner |-> members]

AllEndpoints ==
    {all(m) : m \in UNION {[1..n -> {pending, segment("foo")}] : n \in 0..MaxAll}}

Methods == {"GET", "POST"}

MatchMethod(m, e) == [kind |-> "method", method |-> m, endpoint |-> e]

get(e) == MatchMethod("GET", e)

post(e) == MatchMethod("POST", e)

foo_bar == [kind |-> "match", segments |-> <<"foo", "bar">>]

MethodEndpoints ==
    {MatchMethod(m, e) : m \in Methods, e \in {segment("foo"), foo_bar, eos, path, pending}}

or(a, b) == [kind |-> "or", e1 |-> a, e2 |-> b]

or_strict(a, b) == [kind |-> "or_strict", e1 |-> a, e2 |-> b]

\* The branches the alternations are built from; the unit ones share one
\* output type, and so do the typed ones.
UnitBranches ==
    {segment("foo"), segment("bar"), foo_bar, eos, pending, get(foo_bar), post(segment("foo"))}

TypedBranches == {path, path_req}

OrEndpoints ==
    {or(a, b) : a \in UnitBranches \cup TypedBranches, b \in UnitBranches \cup TypedBranches}

OrStrictEndpoints ==
    {or_strict(a, b) : a \in UnitBranches, b \in UnitBranches}
    \cup {or_strict(a, b) : a \in TypedBranches, b \in TypedBranches}

body(ty) == [kind |-> "body", ty |-> ty]

body_stream == [kind |-> "body_stream"]

\* The endpoints that read the body: alone, two of them in an And, and a
\* body endpoint with an alternative.
BodyEndpoints ==
    {body("String"), body("Json"), body_stream,
     and(body("String"), body("String")), and(body("String"), body_stream),
     and(body_stream, body("String")),
     or(body("Json"), body("String")), or(body("Json"), body_stream)}

param == [kind |-> "param"]

\* path!(@get "/foo/bar/<u32>") of test_recover.
route == [kind |-> "route", segments |-> <<"foo", "bar">>]

map(e) == [kind |-> "map", endpoint |-> e]

recover(e, f) == [kind |-> "recover", endpoint |-> e, f |-> f]

or_else(e, f) == [kind |-> "or_else", endpoint |-> e, f |-> f]

and_then(e, f) == [kind |-> "and_then", endpoint |-> e, f |-> f]

\* The closures of recover and or_else: Ok(..) and Err(..).
Closures == {"Ok", "Err"}

RecoverEndpoints ==
    {param, route, map(route)}
    \cup {recover(e, f) : e \in {route, map(route), path, path_req, pending}, f \in Closures}
    \cup {or_else(e, f) : e \in {path, path_req, pending}, f \in Closures}

\* cloned("Foo").and_then(..) of test_and_then_1 and test_and_then_2, and
\* first stages that fail or wait.
AndThenEndpoints ==
    {and_then(e, f) : e \in {paths, path_req, pending}, f \in {"Ok", "Err", "Pending"}}

lit(s) == [kind |-> "match", segments |-> <<s>>]

\* GET "api" / "v1" / "posts" / <u32>, built by chaining And, with the
\* extractor x in the last place.
api_posts(x) == get(and(and(and(lit("api"), lit("v1")), lit("posts")), x))

ApiRoutes == {api_posts(path), api_posts(path_req)}

\* The paths the route is tried on.
ApiPaths ==
    {<<"api", "v1", "posts", "42">>, <<"api", "v1", "posts", "abc">>,
     <<"api", "v1", "posts">>, <<"api", "v1", "users", "42">>, <<"api", "v1">>,
     <<"api", "v1", "posts", "42", "foo">>, <<>>}

Endpoints ==
    ApiRoutes \cup Primitives \cup AndEndpoints \cup AndChains \cup AllEndpoints
    \cup MethodEndpoints \cup OrEndpoints \cup OrStrictEndpoints
    \cup BodyEndpoints \cup RecoverEndpoints \cup AndThenEndpoints

(* --------------------------- state machine ---------------------------- *)

\* The endpoint looks at the method of the request.
RECURSIVE UsesMethod(_)
UsesMethod(e) ==
    CASE e.kind = "method" -> TRUE
      [] e.kind \in {"and", "or", "or_strict"} -> UsesMethod(e.e1) \/ UsesMethod(e.e2)
      [] OTHER -> FALSE

\* The methods an endpoint is tried with.
MethodsFor(e) == IF UsesMethod(e) THEN Methods ELSE {"GET"}

VARIABLES
    segs,       \* the path segments of the request
    endpoint,   \* the root endpoint of the application
    pc,         \* "Start", "InFlight", "Declined", "Ready", "Failed", "Panicked"
    pos,        \* the offset of the path cursor
    task,       \* the task the root endpoint returned
    applied,    \* the apply calls made, in order
    polls,      \* the poll rounds made, in order
    state,      \* the State of the AppFuture: "Start", "InFlight", "Done", "Gone"
    response,   \* the response the service future resolved to
    again,      \* what a poll after the final result did
    handle,     \* the body handle of the input: "Some" until it is taken
    peer,       \* a second request in flight on the same endpoint
    cache,      \* the Content-Type header of an Input and its media_type field
    timer,      \* the time a service future took and the number it logged
    env         \* the I/O behind the leaves, and the parity of the polls of the task

vars ==
    <<method, payload, segs, endpoint, pc, pos, task, applied, polls, state, response,
      again, handle, peer, cache, timer, env>>

\* What the driver of one request does not touch.
others == <<peer, cache, timer, env>>

\* The endpoint reads the body of the request.
RECURSIVE UsesBody(_)
UsesBody(e) ==
    CASE e.kind \in {"body", "body_stream"} -> TRUE
      [] e.kind \in {"and", "or", "or_strict"} -> UsesBody(e.e1) \/ UsesBody(e.e2)
      [] OTHER -> FALSE

ContentTypes == {"text/plain", "application/json"}

\* The bodies an endpoint is tried with.
PayloadsFor(e) ==
    IF UsesBody(e)
    THEN [content_type : ContentTypes, valid : BOOLEAN]
    ELSE {[content_type |-> "text/plain", valid |-> TRUE]}

\* No response has been produced yet.
NoResponse == [sent |-> FALSE, service |-> "", kind |-> "", err |-> ""]

\* The service future resolved to Ok(Ready(response)).
Response(kind, err) == [sent |-> TRUE, service |-> "Ok", kind |-> kind, err |-> err]

\* Nothing has been polled after the final result.
NoAgain == [who |-> "none", res |-> "", val |-> NoValue, log |-> <<>>]

\* An apply that takes the endpoint by value and leaves an operand of it.
Endpoint_shared_consuming(e) == IF e.kind = "and" THEN e.e2 ELSE eos

\* Endpoint::apply takes &self: the endpoint the service holds is after an
\* apply what it was before.
Endpoint_shared(e) == e

\* poll_endpoint in State::Start: `Ok(future) => self.state = InFlight(..)`,
\* `Err(err) => { self.state = State::Done(input); return Err(..) }`.
AppFuture_state_applied(matched) == IF matched THEN "InFlight" ELSE "Done"

\* Future::poll after poll_output has returned a result:
\* `match mem::replace(&mut self.state, State::Gone) { State::Done(input) =>
\* .., _ => unreachable!(..) }`.
AppFuture_state_taken(st) == IF st = "Done" THEN "Gone" ELSE "Unreachable"

\* poll_endpoint that puts the request back when the future has resolved.
AppFuture_state_after_restarting(res) ==
    CASE res = "NotReady" -> "InFlight"
      [] res = "Ready" -> "Start"
      [] res = "Err" -> "Start"
      [] res = "Panic" -> "InFlight"

\* poll_endpoint that stays InFlight when the future has resolved.
AppFuture_state_after_kept(res) ==
    CASE res = "NotReady" -> "InFlight"
      [] res = "Ready" -> "InFlight"
      [] res = "Err" -> "Done"
      [] res = "Panic" -> "InFlight"

\* The state poll_endpoint leaves behind after f.poll(): NotReady returns
\* with the state untouched, Ready and Err go through
\* `self.state = State::Done(input)`, and a panic of f.poll() unwinds before
\* the state is replaced.
AppFuture_state_after(res) ==
    CASE res = "NotReady" -> "InFlight"
      [] res = "Ready" -> "Done"
      [] res = "Err" -> "Done"
      [] res = "Panic" -> "InFlight"

\* The end of AppServiceFuture::poll with the missing route handed to the
\* caller as the error of the service future.
AppServiceFuture_output_failing(p, e) ==
    CASE p = "Ready" -> Response("output", "")
      [] p = "Failed" -> Response("error", e)
      [] p = "Declined" -> [sent |-> TRUE, service |-> "Err", kind |-> "", err |-> "NoRoute"]

\* The end of AppServiceFuture::poll and of AppFuture::poll: the output
\* responds, an error is rendered by handle_error / into_response, and a
\* missing route is the error NoRoute; the service future is Ok(Ready(..))
\* in every case.
AppServiceFuture_output(p, e) ==
    CASE p = "Ready" -> Response("output", "")
      [] p = "Failed" -> Response("error", e)
      [] p = "Declined" -> Response("error", "NoRoute")

\* The number of leaves of an endpoint whose task waits for I/O.
RECURSIVE Waiting(_)
Waiting(e) ==
    CASE e.kind = "pending" -> 1
      [] e.kind = "and" -> Waiting(e.e1) + Waiting(e.e2)
      [] e.kind \in {"or", "or_strict"} ->
            IF Waiting(e.e1) >= Waiting(e.e2) THEN Waiting(e.e1) ELSE Waiting(e.e2)
      [] e.kind = "method" -> Waiting(e.endpoint)
      [] e.kind = "body" -> 1
      [] e.kind \in {"map", "recover", "or_else"} -> Waiting(e.endpoint)
      [] e.kind = "and_then" -> Waiting(e.endpoint) + (IF e.f = "Pending" THEN 1 ELSE 0)
      [] e.kind = "all" ->
            Cardinality({i \in DOMAIN e.inner : e.inner[i].kind = "pending"})
      [] OTHER -> 0

\* The requests an endpoint is tried on: every path, and only the paths of
\* at most one segment for the endpoints with several waiting leaves, whose
\* tasks have many poll histories, and for the endpoints that read the body;
\* the API route is tried on the paths of its API.
PathsFor(e) ==
    CASE e \in ApiRoutes -> ApiPaths
      [] Waiting(e) <= 1 /\ ~UsesBody(e) -> Paths
      [] OTHER -> {p \in Paths : Len(p) <= 1}

\* The ids of the leaf tasks of t that wait for I/O.
RECURSIVE AsyncIds(_)
AsyncIds(t) ==
    CASE t.kind \in {"async", "body"} -> {t.id}
      [] t.kind = "and" ->
            (IF t.f1.st = "Pending" THEN AsyncIds(t.f1.task) ELSE {})
            \cup (IF t.f2.st = "Pending" THEN AsyncIds(t.f2.task) ELSE {})
      [] t.kind \in {"or", "map", "recover", "or_else"} -> AsyncIds(t.inner)
      [] t.kind = "and_then" ->
            AsyncIds(t.inner)
            \cup (IF t.st = "First" /\ t.f = "Pending" THEN {t.fid} ELSE {})
      [] t.kind = "all" ->
            UNION {IF t.elems[i].st = "Pending" THEN AsyncIds(t.elems[i].task) ELSE {} :
                      i \in DOMAIN t.elems}
      [] OTHER -> {}

\* The ids of the body tasks of t whose body stream has ended.
RECURSIVE EndedIds(_)
EndedIds(t) ==
    CASE t.kind = "body" -> IF t.stream = "ended" THEN {t.id} ELSE {}
      [] t.kind = "and" ->
            (IF t.f1.st = "Pending" THEN EndedIds(t.f1.task) ELSE {})
            \cup (IF t.f2.st = "Pending" THEN EndedIds(t.f2.task) ELSE {})
      [] t.kind \in {"or", "map", "recover", "or_else", "and_then"} -> EndedIds(t.inner)
      [] OTHER -> {}

\* What the I/O of the leaves of t can offer to one poll; a body stream that
\* has ended may do anything when it is polled again, a panic included.
IoFor(t) ==
    {io \in [AsyncIds(t) -> Outcomes \cup {"Panic"}] :
        \A id \in AsyncIds(t) : io[id] = "Panic" => id \in EndedIds(t)}

\* No second request.
NoPeer == [segs |-> <<>>, pc |-> "None", pos |-> 0, task |-> NoTask, applied |-> <<>>,
           polls |-> <<>>]

\* An Input without a Content-Type header, not asked for it yet.
NoCache == [header |-> "absent", media_type |-> None, calls |-> <<>>]

\* A service future that has not logged anything.
NoTimer == [secs |-> 0, nanos |-> 0, logged |-> <<>>]

\* No I/O that the model follows from poll to poll.
NoEnv == [io |-> <<>>, tick |-> 0]

\* One request before its first poll.
Fresh ==
    /\ handle = "Some"
    /\ pc = "Start"
    /\ pos = 0
    /\ task = NoTask
    /\ applied = <<>>
    /\ polls = <<>>
    /\ state = "Start"
    /\ response = NoResponse
    /\ again = NoAgain

Init ==
    /\ endpoint \in Endpoints
    /\ segs \in PathsFor(endpoint)
    /\ method \in MethodsFor(endpoint)
    /\ payload \in PayloadsFor(endpoint)
    /\ Fresh
    /\ peer = NoPeer
    /\ cache = NoCache
    /\ timer = NoTimer
    /\ env = NoEnv

\* The driver applies the root endpoint to the request, with a fresh cursor.
ApplyRequest ==
    /\ state = "Start"
    /\ LET r == Apply(endpoint, <<>>, segs, 0, 1) IN
       /\ pos' = r.pos
       /\ task' = r.task
       /\ applied' = applied \o r.log
       /\ pc' = IF Matches(r.out) THEN "InFlight" ELSE "Declined"
       /\ state' = AppFuture_state_applied(Matches(r.out))
    /\ endpoint' = Endpoint_shared(endpoint)
    /\ UNCHANGED <<method, payload, segs, polls, response, again, handle>>
    /\ UNCHANGED others

\* The driver polls the task once; inp is what the I/O of each leaf offers.
PollRound ==
    /\ state = "InFlight"
    /\ pc # "Panicked"
    /\ Len(polls) < MaxPolls
    /\ \E io \in IoFor(task) :
          LET r == Task_poll(task, Cx(io, handle)) IN
          /\ task' = r.task
          /\ handle' = After(Cx(io, handle), r.log).body
          /\ polls' = Append(polls, [res |-> r.res, val |-> r.val, err |-> r.err,
                                     log |-> r.log, before |-> task, io |-> io,
                                     state |-> state])
          /\ pc' = CASE r.res = "NotReady" -> "InFlight"
                     [] r.res = "Ready" -> "Ready"
                     [] r.res = "Err" -> "Failed"
                     [] r.res = "Panic" -> "Panicked"
          /\ state' = AppFuture_state_after(r.res)
    /\ UNCHANGED <<method, payload, segs, endpoint, pos, applied, response, again>>
    /\ UNCHANGED others

\* The end of the poll of the service future: the input is taken out of
\* State::Done, which leaves State::Gone, and the response is built. A
\* poll out of order is the last thing looked at of a request.
Finalize ==
    /\ pc \in {"Declined", "Ready", "Failed"}
    /\ state \notin {"Gone", "Unreachable"}
    /\ again = NoAgain
    /\ state' = AppFuture_state_taken(state)
    /\ response' = AppServiceFuture_output(pc, IF polls = <<>> THEN ""
                                                ELSE polls[Len(polls)].err)
    /\ UNCHANGED <<method, payload, segs, endpoint, pc, pos, task, applied, polls, again,
                   handle>>
    /\ UNCHANGED others

\* poll_endpoint is called after it has returned Ready or an error:
\* `State::Done(..) | State::Gone => panic!(..)`.
PollEndpointAgain ==
    /\ state \in {"Done", "Gone"}
    /\ again = NoAgain
    /\ again' = [who |-> "driver", res |-> "Panic", val |-> NoValue, log |-> <<>>]
    /\ UNCHANGED <<method, payload, segs, endpoint, pc, pos, task, applied, polls, state,
                   response, handle>>
    /\ UNCHANGED others

\* The task is polled by its owner after it has yielded its final result,
\* before the result is turned into the response.
PollTaskAgain ==
    /\ pc \in {"Ready", "Failed"}
    /\ state = "Done"
    /\ again = NoAgain
    /\ \E io \in IoFor(task) :
          LET r == Task_poll(task, Cx(io, handle)) IN
          again' = [who |-> "task", res |-> r.res, val |-> r.val, log |-> r.log]
    /\ UNCHANGED <<method, payload, segs, endpoint, pc, pos, task, applied, polls, state,
                   response, handle>>
    /\ UNCHANGED others

Next == ApplyRequest \/ PollRound \/ Finalize \/ PollEndpointAgain \/ PollTaskAgain

Spec == Init /\ [][Next]_vars

(* ------------------- a driver that keeps polling ---------------------- *)

\* The endpoints whose tasks are AndTask and AllTask, nested ones included.
LiveEndpoints == AndEndpoints \cup AndChains \cup AllEndpoints

\* The ids of the leaves of their tasks.
LeafIds == 1..(MaxAll + 1)

\* The I/O of every leaf is under way and the task has not been polled.
InitLive ==
    /\ endpoint \in LiveEndpoints
    /\ segs \in PathsFor(endpoint)
    /\ method \in MethodsFor(endpoint)
    /\ payload \in PayloadsFor(endpoint)
    /\ Fresh
    /\ peer = NoPeer
    /\ cache = NoCache
    /\ timer = NoTimer
    /\ env = [io |-> [id \in LeafIds |-> "NotReady"], tick |-> 0]

\* The I/O of a waiting leaf completes, well or badly: from now on the leaf
\* returns Ready or an error when it is polled.
LeafResolves(id) ==
    /\ id \in AsyncIds(task)
    /\ env.io[id] = "NotReady"
    /\ \E out \in {"Ready", "Err"} : env' = [env EXCEPT !.io[id] = out]
    /\ UNCHANGED <<method, payload, segs, endpoint, pc, pos, task, applied, polls, state,
                   response, again, handle, peer, cache, timer>>

\* One poll of the task by poll_endpoint, the leaves returning what their
\* I/O has come to; only the first MaxPolls polls are kept in the history.
PollLive ==
    /\ state = "InFlight"
    /\ pc # "Panicked"
    /\ LET io == [id \in AsyncIds(task) |-> env.io[id]]
           r == Task_poll(task, Cx(io, handle))
       IN  /\ task' = r.task
           /\ handle' = After(Cx(io, handle), r.log).body
           /\ polls' = IF Len(polls) < MaxPolls
                       THEN Append(polls, [res |-> r.res, val |-> r.val, err |-> r.err,
                                           log |-> r.log, before |-> task, io |-> io,
                                           state |-> state])
                       ELSE polls
           /\ pc' = CASE r.res = "NotReady" -> "InFlight"
                      [] r.res = "Ready" -> "Ready"
                      [] r.res = "Err" -> "Failed"
                      [] r.res = "Panic" -> "Panicked"
           /\ state' = AppFuture_state_after(r.res)
    /\ env' = [env EXCEPT !.tick = 1 - @]
    /\ UNCHANGED <<method, payload, segs, endpoint, pos, applied, response, again, peer,
                   cache, timer>>

NextLive ==
    \/ ApplyRequest
    \/ PollLive
    \/ Finalize
    \/ \E id \in LeafIds : LeafResolves(id)

\* The first poll of the AppFuture as the driver sees it: the future leaves
\* State::Start. Of the steps of NextLive only ApplyRequest is one, and
\* ApplyRequest can be taken in every state with State::Start.
Started == state = "Start" /\ state' \in {"InFlight", "Done"}

\* A later poll as the driver sees it: the task is polled once more. Of the
\* steps of NextLive only PollLive is one, and PollLive can be taken in every
\* state with State::InFlight whose task has not panicked.
PolledAgain == state = "InFlight" /\ pc # "Panicked" /\ env' = [env EXCEPT !.tick = 1 - @]

ticks == env.tick

\* The driver keeps polling the future, and no leaf waits for ever.
LiveSpec ==
    /\ InitLive
    /\ [][NextLive]_vars
    /\ WF_state(Started)
    /\ WF_ticks(PolledAgain)
    /\ \A id \in LeafIds : WF_vars(LeafResolves(id))

(* ---------------- two requests on one shared endpoint ----------------- *)

\* The endpoints two requests are in flight on at once.
ConcEndpoints ==
    AndEndpoints \cup Extractors \cup SegmentEndpoints
    \cup {eos, pending, all(<<pending, segment("foo")>>), all(<<segment("foo"), pending>>)}

ConcPaths == {<<>>, <<"foo">>, <<"foo", "bar">>}

\* Two services made by new_service hold the same endpoint; each has
\* dispatched one request, and neither future has been polled.
InitConc ==
    /\ endpoint \in ConcEndpoints
    /\ segs \in ConcPaths
    /\ method = "GET"
    /\ payload \in PayloadsFor(endpoint)
    /\ Fresh
    /\ peer \in [segs : ConcPaths, pc : {"Start"}, pos : {0}, task : {NoTask},
                 applied : {<<>>}, polls : {<<>>}]
    /\ cache = NoCache
    /\ timer = NoTimer
    /\ env = NoEnv

\* The first poll of the future of the second request: the shared endpoint
\* is applied to that request's own input and cursor.
ApplyPeer ==
    /\ peer.pc = "Start"
    /\ LET r == Apply(endpoint, <<>>, peer.segs, 0, 1) IN
       peer' = [peer EXCEPT !.pos = r.pos,
                            !.task = r.task,
                            !.applied = r.log,
                            !.pc = IF Matches(r.out) THEN "InFlight" ELSE "Declined"]
    /\ endpoint' = Endpoint_shared(endpoint)
    /\ UNCHANGED <<method, payload, segs, pc, pos, task, applied, polls, state, response,
                   again, handle, cache, timer, env>>

\* A later poll of the future of the second request polls that request's
\* own task.
PollPeer ==
    /\ peer.pc = "InFlight"
    /\ Len(peer.polls) < MaxPolls
    /\ \E io \in IoFor(peer.task) :
          LET r == Task_poll(peer.task, Cx(io, "Some")) IN
          peer' = [peer EXCEPT !.task = r.task,
                               !.polls = Append(@, [res |-> r.res, val |-> r.val,
                                                    err |-> r.err, log |-> r.log,
                                                    io |-> io]),
                               !.pc = CASE r.res = "NotReady" -> "InFlight"
                                        [] r.res = "Ready" -> "Ready"
                                        [] r.res = "Err" -> "Failed"
                                        [] r.res = "Panic" -> "Panicked"]
    /\ UNCHANGED <<method, payload, segs, endpoint, pc, pos, task, applied, polls, state,
                   response, again, handle, cache, timer, env>>

NextConc == ApplyRequest \/ PollRound \/ ApplyPeer \/ PollPeer

ConcSpec == InitConc /\ [][NextConc]_vars

(* ----------------- the Input and the clock of a service --------------- *)

\* Largest number of calls of Input::content_type on one Input.
MaxCalls == 3

\* Largest number of whole seconds a request takes.
MaxSecs == 3

\* The Content-Type headers of the model: none, two media types, one that
\* does not parse as a media type, one that is not visible ASCII.
Headers == {"absent", "text/plain", "application/json", "unparsable", "opaque"}

\* The nanoseconds above the whole seconds, Duration::subsec_nanos.
SubsecNanos == {0, 999999, 1000000, 1999999, 500000000, 999999999}

Ok(v) == [ok |-> TRUE, val |-> v, err |-> ""]

Err(e) == [ok |-> FALSE, val |-> None, err |-> e]

\* Input::content_type on an Input with header h and field media_type m
\* (Option<Option<Mime>>): the result, the field after the call, and whether
\* the header was read and whether its value was parsed. `?` returns an
\* error before get_or_insert is reached.
Input_content_type(h, m) ==
    CASE m # None ->
            [res |-> Ok(m[1]), media_type |-> m, read |-> FALSE, parsed |-> FALSE]
      [] m = None /\ h = "absent" ->
            [res |-> Ok(None), media_type |-> Some(None), read |-> TRUE, parsed |-> FALSE]
      [] m = None /\ h = "opaque" ->
            [res |-> Err(BadRequest("ToStrError")), media_type |-> None, read |-> TRUE,
             parsed |-> FALSE]
      [] m = None /\ h = "unparsable" ->
            [res |-> Err(BadRequest("FromStrError")), media_type |-> None, read |-> TRUE,
             parsed |-> TRUE]
      [] OTHER ->
            [res |-> Ok(Some(h)), media_type |-> Some(Some(h)), read |-> TRUE,
             parsed |-> TRUE]

\* The number AppServiceFuture::poll logs as "(<n> ms)":
\* `duration.as_secs() * 10 + u64::from(duration.subsec_nanos()) / 1_000_000`.
AppServiceFuture_logged_ms(secs, nanos) == secs * 10 + nanos \div 1000000

InitService ==
    /\ endpoint = eos
    /\ segs = <<>>
    /\ method = "GET"
    /\ payload \in PayloadsFor(eos)
    /\ Fresh
    /\ peer = NoPeer
    /\ cache \in [header : Headers, media_type : {None}, calls : {<<>>}]
    /\ timer \in [secs : 0..MaxSecs, nanos : SubsecNanos, logged : {<<>>}]
    /\ env = NoEnv

\* One call of Input::content_type.
ContentType ==
    /\ Len(cache.calls) < MaxCalls
    /\ LET r == Input_content_type(cache.header, cache.media_type) IN
       cache' = [cache EXCEPT !.media_type = r.media_type,
                              !.calls = Append(@, [res |-> r.res, read |-> r.read,
                                                   parsed |-> r.parsed])]
    /\ UNCHANGED <<method, payload, segs, endpoint, pc, pos, task, applied, polls, state,
                   response, again, handle, peer, timer, env>>

\* The completing poll of the service future logs the status and the time.
LogElapsed ==
    /\ timer.logged = <<>>
    /\ timer' = [timer EXCEPT !.logged = <<AppServiceFuture_logged_ms(timer.secs, timer.nanos)>>]
    /\ UNCHANGED <<method, payload, segs, endpoint, pc, pos, task, applied, polls, state,
                   response, again, handle, peer, cache, env>>

NextService == ContentType \/ LogElapsed

ServiceSpec == InitService /\ [][NextService]_vars

(* ------------------------- helpers of the claims ---------------------- *)

\* The apply calls made on endpoints of the given kinds.
Calls(kinds) == {i \in DOMAIN applied : applied[i].ep.kind \in kinds}

\* The apply calls made on the endpoint at the given place of the tree.
CallsAt(p) == {i \in DOMAIN applied : applied[i].path = p}

\* A segment remains at offset b, and it is s.
NextIs(b, s) == b < Len(segs) /\ segs[b + 1] = s

\* The literal a single-segment matcher compares with.
LiteralOf(e) ==
    CASE e.kind = "segment" -> e.encoded
      [] e.kind = "str" -> e.lit
      [] e.kind = "match" -> e.segments[1]

IsLiteralMatcher(e) ==
    \/ e.kind \in {"segment", "str"}
    \/ e.kind = "match" /\ Len(e.segments) = 1

LiteralCalls == {i \in DOMAIN applied : IsLiteralMatcher(applied[i].ep)}

(* -------------------------------- C1 ---------------------------------- *)

\* C1: every And.apply call applies its left endpoint first, from the cursor
\* And was entered with; when the left declines the right endpoint is not
\* applied and And declines; otherwise the right endpoint is applied after
\* the left, from the cursor the left left behind, and And matches iff the
\* right (hence both) matches.
C1_AndApplySequential ==
    \A i \in Calls({"and"}) :
        LET a == applied[i]
            L == CallsAt(a.path \o <<1>>)
            R == CallsAt(a.path \o <<2>>)
        IN  /\ Cardinality(L) = 1
            /\ \A j \in L :
                  /\ j < i
                  /\ applied[j].before = a.before
                  /\ IF Matches(applied[j].out)
                     THEN /\ Cardinality(R) = 1
                          /\ \A k \in R :
                                /\ j < k /\ k < i
                                /\ applied[k].before = applied[j].after
                                /\ Matches(a.out) <=> Matches(applied[k].out)
                     ELSE R = {} /\ ~Matches(a.out)

\* An And whose left endpoint consumed a segment and whose right endpoint
\* was applied behind it and matched.
C1_Witness ==
    /\ pc = "InFlight"
    /\ endpoint.kind = "and"
    /\ \E k \in CallsAt(<<2>>) : applied[k].before = 1 /\ applied[k].after = 2

(* -------------------------------- C7 ---------------------------------- *)

\* C7 as stated: a literal segment matcher matches iff the next unconsumed
\* segment equals its literal, and the cursor advances by exactly one
\* segment iff it matched (a decline leaves the cursor where it was).
C7_AdvanceIffMatched ==
    \A i \in LiteralCalls :
        LET a == applied[i] IN
        /\ Matches(a.out) <=> NextIs(a.before, LiteralOf(a.ep))
        /\ (a.after = a.before + 1) <=> Matches(a.out)
        /\ ~Matches(a.out) => a.after = a.before

\* C7 amended: a literal segment matcher matches iff the next unconsumed
\* segment equals its literal; the cursor advances by exactly one segment
\* iff a segment remained (a mismatching segment stays consumed), and is
\* where it was only on a decline by missing segment.
C7_AdvanceIffSegmentRemained ==
    \A i \in LiteralCalls :
        LET a == applied[i] IN
        /\ Matches(a.out) <=> NextIs(a.before, LiteralOf(a.ep))
        /\ (a.after = a.before + 1) <=> a.before < Len(segs)
        /\ a.before >= Len(segs) => a.after = a.before

\* A literal matcher declined on a segment that differs, and consumed it.
C7_Witness ==
    \E i \in LiteralCalls :
        /\ applied[i].ep.kind = "segment"
        /\ ~Matches(applied[i].out)
        /\ applied[i].before < Len(segs)
        /\ applied[i].after = applied[i].before + 1

(* -------------------------------- C8 ---------------------------------- *)

\* C8: a MatchPath of n literal segments matches iff the next n unconsumed
\* segments exist and equal the literals in order; it declines on any
\* difference and whenever fewer than n segments remain.
C8_MatchPathAllSegments ==
    \A i \in Calls({"match"}) :
        LET a == applied[i]
            n == Len(a.ep.segments)
        IN  Matches(a.out) <=>
                /\ a.before + n <= Len(segs)
                /\ \A k \in 1..n : segs[a.before + k] = a.ep.segments[k]

\* A MatchPath declined on a path that ends early although every segment
\* that remained equals the literal at its place.
C8_Witness ==
    \E i \in Calls({"match"}) :
        LET a == applied[i]
            n == Len(a.ep.segments)
            m == Len(segs) - a.before
        IN  /\ 0 < m /\ m < n
            /\ \A k \in 1..m : segs[a.before + k] = a.ep.segments[k]
            /\ ~Matches(a.out)

(* -------------------------------- C9 ---------------------------------- *)

C10_LenientPath ==
    /\ \A i \in Calls({"path"}) :
          LET a == applied[i] IN
          /\ a.out \in {"None", "Some"}
          /\ a.out = "None" <=>
                (a.before >= Len(segs) \/ ~FromSegment(segs[a.before + 1]).ok)
          /\ a.out = "Some" => a.after = a.before + 1
    /\ (endpoint.kind = "path" /\ pc # "Start") =>
          /\ pc \in {"Declined", "InFlight", "Ready"}
          /\ pc = "Declined" => task = NoTask
          /\ pc = "InFlight" => polls = <<>> /\ task = ReadyTask(1, FromSegment(segs[1]).val)
          /\ pc = "Ready" =>
                /\ Len(polls) = 1
                /\ polls[1].res = "Ready"
                /\ polls[1].val = FromSegment(segs[1]).val

\* path::<i32>() matched /42 and its task resolved to 42 at once; the cursor
\* is one segment further.
C10_Witness ==
    /\ endpoint.kind = "path"
    /\ pc = "Ready"
    /\ pos = 1
    /\ polls[1].val = IntV(42)

(* ---------------------- helpers of the poll claims -------------------- *)

\* The task as apply returned it, before any poll.
Task0 == IF polls = <<>> THEN task ELSE polls[1].before

\* The task as poll round k left it.
TaskAfter(k) == IF k = Len(polls) THEN task ELSE polls[k + 1].before

IsLeaf(t) == t.kind \in {"ready", "failed", "async"}

\* What a leaf task resolves to.
OutputOf(t) == IF t.kind = "ready" THEN t.val ELSE LeafVal(t.id)

\* The leaf polls of rounds 1..k, in order.
RECURSIVE LeafPollsUpTo(_)
LeafPollsUpTo(k) == IF k = 0 THEN <<>> ELSE LeafPollsUpTo(k - 1) \o polls[k].log

LeafPolls == LeafPollsUpTo(Len(polls))

\* Leaf id has returned Ready in one of the rounds 1..k.
ResolvedBy(id, k) ==
    \E j \in 1..k : \E m \in DOMAIN polls[j].log :
        polls[j].log[m].id = id /\ polls[j].log[m].out = "Ready"

\* A leaf poll of round k failed.
FailedIn(k) == \E m \in DOMAIN polls[k].log : polls[k].log[m].out = "Err"

\* The root task is an AndTask over two leaf tasks.
TwoLeafAnd ==
    /\ pc \notin {"Start", "Declined"}
    /\ Task0.kind = "and"
    /\ IsLeaf(Task0.f1.task)
    /\ IsLeaf(Task0.f2.task)

LeftId == Task0.f1.task.id

RightId == Task0.f2.task.id

(* -------------------------------- C2 ---------------------------------- *)

AsTuple(v) == IF v.tag = "tuple" THEN v.sub ELSE <<v>>

\* Combine: the concatenation of two outputs.
Combine(a, b) == TupV(AsTuple(a) \o AsTuple(b))

\* The flat tuple of the leaf outputs of a task built by And, in
\* declaration order.
RECURSIVE FlatOutput(_)
FlatOutput(t) ==
    IF t.kind = "and"
    THEN Combine(FlatOutput(t.f1.task), FlatOutput(t.f2.task))
    ELSE OutputOf(t)

\* C3: the output of And is the concatenation of its operands' output
\* tuples: a chain of And resolves to one flat tuple of the components in
\* declaration order, to which a unit operand contributes nothing.
C3_AndOutputIsConcatenation ==
    (endpoint.kind = "and" /\ pc = "Ready") =>
        polls[Len(polls)].val = FlatOutput(Task0)

(* -------------------------------- C4 ---------------------------------- *)

\* C4: when a sub-poll of an AndTask fails, nothing is polled after it in
\* that round, that poll of the AndTask returns the sub-poll's error and no
\* value, both slots are erased, and the AndTask is not polled again.
C4_AndTaskFailFast ==
    (endpoint.kind = "and" /\ pc \notin {"Start", "Declined"}) =>
        \A k \in DOMAIN polls :
            FailedIn(k) =>
                LET log == polls[k].log
                    last == log[Len(log)]
                IN  /\ last.out = "Err"
                    /\ \A m \in 1..(Len(log) - 1) : log[m].out # "Err"
                    /\ polls[k].res = "Err"
                    /\ polls[k].err = last.err
                    /\ polls[k].val = NoValue
                    /\ TaskAfter(k).f1.st = "Gone"
                    /\ TaskAfter(k).f2.st = "Gone"
                    /\ k = Len(polls)

\* The right sub-task failed in the second round, after the left one had
\* resolved in the first.
C4_Witness ==
    /\ TwoLeafAnd
    /\ pc = "Failed"
    /\ Len(polls) = 2
    /\ ResolvedBy(LeftId, 1)
    /\ polls[2].err = LeafErr(RightId)

(* -------------------------------- C5 ---------------------------------- *)

\* The branch that failed, and the other one, of a failed two-leaf AndTask.
FailedId == LeafPolls[Len(LeafPolls)].id

OtherId == IF FailedId = LeftId THEN RightId ELSE LeftId

\* C5 as stated: whenever an AndTask fails because one branch failed, the
\* other branch has not been polled to completion at any earlier point.
C5_OtherNeverCompleted ==
    (TwoLeafAnd /\ pc = "Failed") => ~ResolvedBy(OtherId, Len(polls))

\* C5 amended: whenever an AndTask fails because one branch failed, the
\* failing sub-poll is the last poll of the run: the other branch is not
\* polled after it (not at all in that round when the left branch fails), a
\* still unresolved other branch is discarded unresolved, and a branch that
\* had resolved before was polled to completion once only.
C5_OtherNotPolledAfterFailure ==
    (TwoLeafAnd /\ pc = "Failed") =>
        LET K == Len(polls)
            lp == LeafPolls
        IN  /\ lp[Len(lp)].out = "Err"
            /\ \A m \in 1..(Len(lp) - 1) : lp[m].out # "Err"
            /\ FailedId = LeftId =>
                  \A m \in DOMAIN polls[K].log : polls[K].log[m].id # RightId
            /\ Cardinality({m \in DOMAIN lp :
                               lp[m].id = OtherId /\ lp[m].out = "Ready"}) <= 1
            /\ \A m \in DOMAIN lp : lp[m].out = "Ready" =>
                  \A m2 \in DOMAIN lp : m2 > m => lp[m2].id # lp[m].id
            /\ task.f1.st = "Gone" /\ task.f2.st = "Gone"

\* The left branch failed in the second round; the right branch had
\* resolved in the first round and was not polled in the second.
C5_Witness ==
    /\ TwoLeafAnd
    /\ pc = "Failed"
    /\ Len(polls) = 2
    /\ FailedId = LeftId
    /\ ResolvedBy(RightId, 1)

(* -------------------------------- C6 ---------------------------------- *)

\* The output of a task built by And and All from the outputs of its leaf
\* tasks: a pair per AndTask, a sequence per AllTask.
RECURSIVE NestedOutput(_)
NestedOutput(t) ==
    CASE t.kind = "and" -> TupV(<<NestedOutput(t.f1.task), NestedOutput(t.f2.task)>>)
      [] t.kind = "all" -> TupV([k \in 1..Len(t.elems) |-> NestedOutput(t.elems[k].task)])
      [] OTHER -> OutputOf(t)

\* C6: a sub-task of an AndTask or AllTask that has returned Ready is not
\* polled again in any later round, and the value it returned is the one at
\* its place in the aggregate result.
C6_DoneSlotNotPolledAgain ==
    (endpoint.kind \in {"and", "all"} /\ ~UsesBody(endpoint)
        /\ pc \notin {"Start", "Declined"}) =>
        /\ \A m \in DOMAIN LeafPolls :
              LeafPolls[m].out = "Ready" =>
                  \A m2 \in DOMAIN LeafPolls :
                      m2 > m => LeafPolls[m2].id # LeafPolls[m].id
        /\ pc # "Panicked"
        /\ pc = "Ready" => polls[Len(polls)].val = NestedOutput(Task0)

\* The first sub-task resolved in the first round, the parent was polled
\* twice more while a sibling was pending, and then returned the aggregate.
C6_Witness ==
    /\ endpoint.kind \in {"and", "all"}
    /\ pc = "Ready"
    /\ Len(polls) = 3
    /\ ResolvedBy(1, 1)
    /\ polls[2].res = "NotReady"

(* -------------------------------- C11 --------------------------------- *)

\* A segment remains at offset b and does not decode.
Undecodable(b) == b < Len(segs) /\ ~FromSegment(segs[b + 1]).ok

\* C11: path_req::<T>() given a segment that does not decode does not
\* decline: apply returns a task, and that task fails at its first poll with
\* the bad-request error that carries the decode error; an alternation whose
\* left branch it is matches, and or_strict does not go on to its right
\* branch.
C11_RequiredFailsOnDecodeError ==
    /\ \A i \in Calls({"path_req"}) :
          Undecodable(applied[i].before) =>
              applied[i].out = "Some" /\ applied[i].after = applied[i].before + 1
    /\ \A i \in Calls({"or", "or_strict"}) :
          LET a == applied[i] IN
          (a.ep.e1.kind = "path_req" /\ Undecodable(a.before)) =>
              /\ Matches(a.out)
              /\ a.ep.kind = "or_strict" =>
                    CallsAt(a.path \o <<2>>) = {} /\ a.after = a.before + 1
    /\ (endpoint.kind = "path_req" /\ pc # "Start" /\ Undecodable(0)) =>
          /\ pc \in {"InFlight", "Failed"}
          /\ Task0 = FailedTask(1, BadRequest(FromSegment(segs[1]).err))
          /\ pc = "Failed" =>
                /\ Len(polls) = 1
                /\ polls[1].res = "Err"
                /\ polls[1].err = BadRequest(FromSegment(segs[1]).err)

\* path_req::<i32>() was applied to /foo and its task failed with the
\* bad-request error.
C11_Witness ==
    /\ endpoint.kind = "path_req"
    /\ pc = "Failed"
    /\ segs = <<"foo">>
    /\ polls[1].err = "BadRequest(ParseIntError)"

(* -------------------------------- C12 --------------------------------- *)

SingleExtractors == {"path", "path_req", "path_opt"}

C13_RemainsConsumesAll ==
    /\ \A i \in Calls({"paths", "remains"}) : applied[i].after = Len(segs)
    /\ (endpoint.kind = "paths" /\ pc # "Start") =>
          /\ pc \in {"InFlight", "Ready"}
          /\ Task0.kind = "ready"
          /\ Len(Task0.val.sub) = Len(segs)
          /\ \A k \in DOMAIN segs : Task0.val.sub[k] = StrV(PercentDecode(segs[k]))
          /\ pc = "Ready" => polls[1].val = Task0.val
    /\ (endpoint.kind = "remains" /\ pc # "Start") =>
          /\ pc = "Declined" <=> ~(Len(segs) = 1 /\ FromSegment(segs[1]).ok)
          /\ pc # "Declined" => Task0 = ReadyTask(1, TupV(<<FromSegment(segs[1]).val>>))

\* remains::<i32>() failed to decode a path of two segments and left the
\* cursor at its end.
C13_Witness ==
    /\ endpoint.kind = "remains"
    /\ pc = "Declined"
    /\ Len(segs) = 2
    /\ pos = 2

(* -------------------------------- C14 --------------------------------- *)

\* C14: a method matcher whose method differs from the request's declines
\* without applying the wrapped endpoint and leaves the cursor where it was;
\* one whose method equals the request's applies the wrapped endpoint once,
\* from the same cursor, and its result and cursor movement are exactly
\* those of the wrapped endpoint.
C14_MethodMatcher ==
    \A i \in Calls({"method"}) :
        LET a == applied[i]
            W == CallsAt(a.path \o <<1>>)
        IN  IF method # a.ep.method
            THEN W = {} /\ ~Matches(a.out) /\ a.after = a.before
            ELSE /\ Cardinality(W) = 1
                 /\ \A j \in W :
                       /\ j < i
                       /\ applied[j].before = a.before
                       /\ applied[j].after = a.after
                       /\ applied[j].out = a.out

\* A method matcher declined a request whose method differs, on a path the
\* wrapped endpoint would have consumed from, and the cursor has not moved.
C14_Witness ==
    /\ endpoint.kind = "method"
    /\ endpoint.endpoint = segment("foo")
    /\ method # endpoint.method
    /\ segs = <<"foo">>
    /\ pc = "Declined"
    /\ pos = 0

(* -------------------------------- C15 --------------------------------- *)

\* C15: Or applies its left endpoint from the cursor Or was entered with;
\* when the left declines, the right endpoint is applied after it, from that
\* same cursor, whatever the left consumed before it declined.
C15_OrRightStartsFromSnapshot ==
    \A i \in Calls({"or"}) :
        LET a == applied[i]
            L == CallsAt(a.path \o <<1>>)
            R == CallsAt(a.path \o <<2>>)
        IN  /\ Cardinality(L) = 1
            /\ \A j \in L :
                  /\ j < i
                  /\ applied[j].before = a.before
                  /\ ~Matches(applied[j].out) =>
                        /\ Cardinality(R) = 1
                        /\ \A k \in R :
                              /\ j < k /\ k < i
                              /\ applied[k].before = a.before
                              /\ Matches(a.out) <=> Matches(applied[k].out)
                              /\ Matches(a.out) => a.after = applied[k].after

\* The left branch of an Or consumed two segments before it declined, and
\* the right branch matched from the start of the path.
C15_Witness ==
    /\ endpoint.kind = "or"
    /\ pc = "InFlight"
    /\ \E j \in CallsAt(<<1>>) :
          ~Matches(applied[j].out) /\ applied[j].after = 2
    /\ \E k \in CallsAt(<<2>>) :
          applied[k].before = 0 /\ applied[k].after = 1 /\ Matches(applied[k].out)

(* -------------------------------- C16 --------------------------------- *)

\* C16: when both branches of an Or match the request, Or matches and
\* selects the branch that consumed more segments, the left one when both
\* consumed the same number; the cursor is left where the selected branch
\* left it.
C16_OrPrefersLongerThenLeft ==
    /\ \A i \in Calls({"or"}) :
          LET a == applied[i] IN
          \A j \in CallsAt(a.path \o <<1>>) : \A k \in CallsAt(a.path \o <<2>>) :
              (Matches(applied[j].out) /\ Matches(applied[k].out)) =>
                  /\ Matches(a.out)
                  /\ a.after = IF applied[j].after >= applied[k].after
                               THEN applied[j].after ELSE applied[k].after
    /\ (endpoint.kind = "or" /\ pc \notin {"Start", "Declined"}) =>
          \A j \in CallsAt(<<1>>) : \A k \in CallsAt(<<2>>) :
              (Matches(applied[j].out) /\ Matches(applied[k].out)) =>
                  /\ Task0.kind = "or"
                  /\ Task0.tag = IF applied[j].after >= applied[k].after
                                 THEN "Left" ELSE "Right"

\* Both branches of an Or matched, the right one consumed more segments and
\* was selected.
C16_Witness ==
    /\ endpoint.kind = "or"
    /\ pc = "InFlight"
    /\ Task0.tag = "Right"
    /\ \E j \in CallsAt(<<1>>) : \E k \in CallsAt(<<2>>) :
          /\ Matches(applied[j].out)
          /\ Matches(applied[k].out)
          /\ applied[k].after > applied[j].after

(* -------------------------------- C17 --------------------------------- *)

AllMatchedBefore(a, k) ==
    \A m \in 1..(k - 1) :
        \E j \in CallsAt(a.path \o <<m>>) : Matches(applied[j].out)

\* C18: All.apply applies its members in declaration order, each from the
\* cursor the one before it left behind; a member is applied iff every member
\* before it matched, so none is applied behind the first that declines; All
\* matches iff every member matched, and then its task has one pending slot
\* per member.
C18_AllApplyInOrder ==
    /\ \A i \in Calls({"all"}) :
          LET a == applied[i]
              n == Len(a.ep.inner)
          IN  /\ \A k \in 1..n :
                    LET M == CallsAt(a.path \o <<k>>) IN
                    IF AllMatchedBefore(a, k)
                    THEN /\ Cardinality(M) = 1
                         /\ \A j \in M :
                               /\ j < i
                               /\ k = 1 => applied[j].before = a.before
                               /\ k > 1 =>
                                     \A h \in CallsAt(a.path \o <<k - 1>>) :
                                         h < j /\ applied[j].before = applied[h].after
                    ELSE M = {}
              /\ Matches(a.out) <=> AllMatchedBefore(a, n + 1)
    /\ (endpoint.kind = "all" /\ pc \notin {"Start", "Declined"}) =>
          /\ Task0.kind = "all"
          /\ Len(Task0.elems) = Len(endpoint.inner)
          /\ \A k \in DOMAIN Task0.elems : Task0.elems[k].st = "Pending"

\* The second of three members declined behind the first, which had
\* consumed a segment; the third was not applied.
C18_Witness ==
    /\ endpoint.kind = "all"
    /\ Len(endpoint.inner) = 3
    /\ pc = "Declined"
    /\ \E j \in CallsAt(<<1>>) : applied[j].after = 1 /\ Matches(applied[j].out)
    /\ \E j \in CallsAt(<<2>>) : applied[j].before = 1 /\ ~Matches(applied[j].out)
    /\ CallsAt(<<3>>) = {}

(* -------------------------------- C19 --------------------------------- *)

\* The root task is an AllTask.
RootAll == endpoint.kind = "all" /\ pc \notin {"Start", "Declined"}

\* C19: a poll of an AllTask in which no slot fails returns Ready iff every
\* slot has resolved by then, and NotReady otherwise; the Ready value is the
\* sequence of the members' outputs in index order, in whatever order the
\* members resolved.
C19_AllTaskReadyInIndexOrder ==
    RootAll =>
        \A k \in DOMAIN polls :
            ~FailedIn(k) =>
                /\ polls[k].res \in {"Ready", "NotReady"}
                /\ polls[k].res = "Ready" <=>
                      \A i \in DOMAIN Task0.elems : ResolvedBy(Task0.elems[i].task.id, k)
                /\ polls[k].res = "Ready" =>
                      polls[k].val =
                          TupV([i \in 1..Len(Task0.elems) |-> OutputOf(Task0.elems[i].task)])

\* The second member resolved in the first round, the first member in the
\* second, and the AllTask returned their outputs in index order.
C19_Witness ==
    /\ RootAll
    /\ Len(Task0.elems) = 2
    /\ pc = "Ready"
    /\ Len(polls) = 2
    /\ ResolvedBy(2, 1)
    /\ ~ResolvedBy(1, 1)
    /\ polls[2].val = TupV(<<LeafVal(1), LeafVal(2)>>)

(* -------------------------------- C20 --------------------------------- *)

\* C20: when the poll of a slot of an AllTask fails, no slot behind it is
\* polled in that round, that poll of the AllTask returns the slot's error
\* and no value, every slot is dropped, and none is polled afterwards.
C20_AllTaskFailFast ==
    RootAll =>
        \A k \in DOMAIN polls :
            FailedIn(k) =>
                LET log == polls[k].log
                    last == log[Len(log)]
                IN  /\ last.out = "Err"
                    /\ \A m \in 1..(Len(log) - 1) :
                          log[m].out # "Err" /\ log[m].id < last.id
                    /\ polls[k].res = "Err"
                    /\ polls[k].err = last.err
                    /\ polls[k].val = NoValue
                    /\ TaskAfter(k).elems = <<>>
                    /\ k = Len(polls)

\* The second of three members failed in the second round: the first had
\* resolved, and the third, still pending, was not polled in that round.
C20_Witness ==
    /\ RootAll
    /\ Len(Task0.elems) = 3
    /\ pc = "Failed"
    /\ Len(polls) = 2
    /\ ResolvedBy(1, 1)
    /\ polls[2].err = LeafErr(2)
    /\ \E m \in DOMAIN polls[1].log :
          polls[1].log[m].id = 3 /\ polls[1].log[m].out = "NotReady"
    /\ \A m \in DOMAIN polls[2].log : polls[2].log[m].id # 3

(* -------------------------------- C21 --------------------------------- *)

\* C21: a poll of an AllTask after it has yielded its final result never
\* returns a normal result: it panics, and in particular it does not return
\* Ready after the task has failed.
C21_AllTaskRepollIsFatal ==
    (RootAll /\ again.who = "task") => again.res = "Panic"

(* -------------------------------- C23 --------------------------------- *)

\* The place of a State of the AppFuture in the order Start, InFlight, Done,
\* Gone.
Rank(st) ==
    CASE st = "Start" -> 0
      [] st = "InFlight" -> 1
      [] st = "Done" -> 2
      [] st = "Gone" -> 3
      [] OTHER -> 4

\* C23: once poll_endpoint has returned Ready or an error the AppFuture is
\* in state Done or Gone, and a further call of poll_endpoint panics; while
\* the polls return NotReady it is in state InFlight, where it is polled
\* again; and the state never moves back in the order Start, InFlight, Done,
\* Gone.
C23_DriverPanicsOnRepoll ==
    /\ [](/\ pc \in {"Ready", "Failed", "Declined"} => state \in {"Done", "Gone"}
          /\ again.who = "driver" =>
                /\ again.res = "Panic"
                /\ pc \in {"Ready", "Failed", "Declined"}
          /\ pc = "InFlight" =>
                /\ state = "InFlight"
                /\ again = NoAgain
                /\ \A k \in DOMAIN polls : polls[k].res = "NotReady"
          /\ \A k \in DOMAIN polls : polls[k].res # "NotReady" => k = Len(polls))
    /\ [][Rank(state') >= Rank(state)]_vars

\* The task was NotReady once and then Ready, the response was built, and
\* poll_endpoint was called once more and panicked.
C23_Witness ==
    /\ pc = "Ready"
    /\ Len(polls) = 2
    /\ state = "Gone"
    /\ again.who = "driver"
    /\ again.res = "Panic"

(* -------------------------------- C27 --------------------------------- *)

\* C27: when the root endpoint declines, no task is created and none is
\* polled, the outcome of the request is the not-found error NoRoute, and the
\* service future resolves to a response, not to an error.
C27_DeclineIsNotFound ==
    pc = "Declined" =>
        /\ task = NoTask
        /\ polls = <<>>
        /\ again.who # "task"
        /\ state \in {"Done", "Gone"}
        /\ state = "Gone" => response = Response("error", "NoRoute")
        /\ response.sent => response.service = "Ok"

\* The root endpoint declined and the service future resolved to the
\* response of NoRoute.
C27_Witness ==
    /\ pc = "Declined"
    /\ state = "Gone"
    /\ response.sent
    /\ response.err = "NoRoute"

(* ------------------------------ the body ------------------------------ *)

RootBody == endpoint.kind = "body"

\* C22: BodyTask moves Init -> Recv -> Done, and a poll after its final
\* result panics with "cannot resolve/reject twice" and does not poll the
\* body stream again.
C22_BodyTaskRepollPanics ==
    (RootBody /\ again.who = "task") =>
        /\ task.st = "Done"
        /\ again.res = "Panic"
        /\ again.log[1].err = "cannot resolve/reject twice"

\* The leaf polls that took the body out of the input.
Takes == {i \in DOMAIN LeafPolls : LeafPolls[i].took}

TakePanics == {"The body has already taken", "cannot take a body twice"}

\* C24: the body handle is taken at most once for a request: the task that
\* comes second to the body (two body tasks under And, a BodyStream and a
\* Body) panics when it is polled.
C24_BodyTakenAtMostOnce ==
    UsesBody(endpoint) =>
        LET ps == LeafPolls IN
        /\ Cardinality(Takes) <= 1
        /\ (handle = "None") <=> (Takes # {})
        /\ \A i, j \in DOMAIN ps :
              (i < j /\ ps[i].id # ps[j].id) =>
                  /\ ps[i].took
                  /\ ps[j].out = "Panic"
                  /\ ps[j].err \in TakePanics

C24_Witness ==
    /\ endpoint = and(body("String"), body_stream)
    /\ pc = "Panicked"
    /\ Len(polls[1].log) = 2
    /\ polls[1].log[1].took
    /\ polls[1].log[2].err = "cannot take a body twice"

BodyWithAlternative == {or(body("Json"), body("String")), or(body("Json"), body_stream)}

\* C25: Body::apply matches exactly when T::is_match holds of the request;
\* it neither takes the body nor moves the cursor, the body is taken by the
\* first poll of the task, and a body endpoint that declines leaves the body
\* to the alternative branch.
C25_BodyApplyOnlyMatches ==
    /\ (RootBody /\ pc # "Start") =>
          /\ (pc = "Declined") <=> ~FromBody_is_match(endpoint.ty)
          /\ pos = 0
          /\ polls = <<>> => (handle = "Some" /\ (pc = "InFlight" => task.st = "Init"))
          /\ polls # <<>> => (polls[1].log[1].took /\ handle = "None")
    /\ (endpoint \in BodyWithAlternative /\ ~FromBody_is_match("Json") /\ pc # "Start") =>
          /\ pc # "Declined"
          /\ polls = <<>> => handle = "Some"
          /\ polls # <<>> => (polls[1].res # "Panic" /\ polls[1].log[1].took)

C25_Witness ==
    /\ endpoint = or(body("Json"), body("String"))
    /\ payload = [content_type |-> "text/plain", valid |-> TRUE]
    /\ pc = "Ready"
    /\ polls[Len(polls)].val = Wrapped("Right", StrV("body"))
    /\ handle = "None"

\* C26: a body that has arrived and does not decode fails the task with a
\* bad request; the endpoint does not decline, and the task is NotReady
\* until the body has arrived.
C26_UndecodableBodyFailsTask ==
    (RootBody /\ FromBody_is_match(endpoint.ty) /\ ~payload.valid) =>
        /\ pc \notin {"Declined", "Ready"}
        /\ \A k \in DOMAIN polls :
              LET o == polls[k].io[1] IN
              /\ o = "NotReady" => polls[k].res = "NotReady"
              /\ o = "Ready" =>
                    /\ polls[k].res = "Err"
                    /\ polls[k].err \in {BadRequest("Utf8Error"), BadRequest("JsonError")}
              /\ o = "Err" => (polls[k].res = "Err" /\ polls[k].err = "BodyError")

C26_Witness ==
    /\ endpoint = body("String")
    /\ ~payload.valid
    /\ Len(polls) = 2
    /\ polls[1].res = "NotReady"
    /\ pc = "Failed"
    /\ polls[2].err = BadRequest("Utf8Error")

(* ---------------------- Recover, OrElse, AndThen ---------------------- *)

\* The apply call of the endpoint that the root combinator wraps.
WrappedCall == applied[CHOOSE i \in DOMAIN applied : applied[i].path = <<1>>]

\* The value of the wrapped endpoint whose leaf resolved to v.
WrappedValue(v) == IF endpoint.endpoint.kind = "map" THEN Id(Some(v)) ELSE v

\* C28: recover(f) returns the value of the wrapped endpoint unchanged when
\* it succeeds and the result of f when it fails, also when the path lacks
\* the segment of a typed parameter: GET /foo/bar on the route
\* /foo/bar/<u32> yields the recovery value.
C28_RecoverSubstitutesOnFailure ==
    (endpoint.kind = "recover" /\ pc # "Start") =>
        /\ WrappedCall.out = "Err" =>
              IF endpoint.f = "Ok"
              THEN /\ pc \in {"InFlight", "Ready"}
                   /\ polls # <<>> => (polls[1].res = "Ready" /\ polls[1].val = Id(None))
              ELSE pc = "Declined"
        /\ \A k \in DOMAIN polls :
              LET l == polls[k].log[Len(polls[k].log)] IN
              Matches(WrappedCall.out) =>
                  /\ l.out = "NotReady" => polls[k].res = "NotReady"
                  /\ l.out = "Ready" =>
                        (polls[k].res = "Ready" /\ polls[k].val = WrappedValue(l.val))
                  /\ l.out = "Err" =>
                        IF endpoint.f = "Ok"
                        THEN polls[k].res = "Ready" /\ polls[k].val = Id(None)
                        ELSE /\ polls[k].res = "Err"
                             /\ polls[k].err = "Unrecovered(" \o l.err \o ")"
        /\ (endpoint = recover(map(route), "Ok") /\ polls # <<>>) =>
              /\ segs = <<"foo", "bar">> => polls[1].val = Id(None)
              /\ segs = <<"foo", "bar", "42">> =>
                    polls[1].val = Id(Some(TupV(<<IntV(42)>>)))

C28_Witness ==
    /\ endpoint = recover(map(route), "Ok")
    /\ segs = <<"foo", "bar">>
    /\ pc = "Ready"
    /\ polls[1].val = Id(None)

C30_AndThenStages ==
    (endpoint.kind = "and_then" /\ pc \notin {"Start", "Declined"}) =>
        /\ \A k \in DOMAIN polls :
              LET lg == polls[k].log
                  l == lg[Len(lg)]
              IN  /\ polls[k].res = l.out
                  /\ polls[k].val = l.val
                  /\ polls[k].err = l.err
                  /\ \A m \in DOMAIN lg :
                        /\ (lg[m].id = 1 /\ lg[m].out = "Ready") =>
                              (m < Len(lg) /\ lg[m + 1].id = task.fid)
                        /\ (lg[m].id = 1 /\ lg[m].out # "Ready") => m = Len(lg)
                        /\ (lg[m].id = task.fid /\ endpoint.f = "Ok") =>
                              (lg[m].out = "Ready" /\ lg[m].val = StrV("Bar"))
                        /\ (lg[m].id = task.fid /\ endpoint.f = "Err") =>
                              (lg[m].out = "Err" /\ lg[m].err = BadRequest("Bar"))
        /\ (task.called = 1) <=>
              (\E i \in DOMAIN LeafPolls : LeafPolls[i].id = 1 /\ LeafPolls[i].out = "Ready")
        /\ \A i \in DOMAIN LeafPolls :
              (LeafPolls[i].id = 1 /\ LeafPolls[i].out = "Err") =>
                  /\ pc = "Failed"
                  /\ task.called = 0
                  /\ task.st = "First"
                  /\ \A j \in DOMAIN LeafPolls : LeafPolls[j].id # task.fid
                  /\ polls[Len(polls)].err = LeafPolls[i].err

C30_Witness ==
    /\ endpoint = and_then(pending, "Err")
    /\ Len(polls) = 2
    /\ pc = "Failed"
    /\ task.called = 1
    /\ polls[2].err = BadRequest("Bar")

(* ------------------------- the driver's polls ------------------------- *)

\* The apply calls made on the root endpoint.
RootCalls == {i \in DOMAIN applied : applied[i].path = <<>>}

\* C38: for one request the AppFuture applies the root endpoint exactly
\* once, in state Start; it polls the task only in state InFlight, after the
\* apply has matched and not after a poll has completed; and no
\* unreachable!() branch is reached.
C38_ApplyOnceThenPoll ==
    /\ state # "Unreachable"
    /\ Cardinality(RootCalls) = IF state = "Start" THEN 0 ELSE 1
    /\ state = "InFlight" => pc \in {"InFlight", "Panicked"}
    /\ \A k \in DOMAIN polls :
          /\ polls[k].state = "InFlight"
          /\ \E i \in RootCalls : Matches(applied[i].out)
          /\ k < Len(polls) => polls[k].res = "NotReady"

C38_Witness ==
    /\ state = "Gone"
    /\ pc = "Ready"
    /\ Len(polls) = 2
    /\ Cardinality(RootCalls) = 1

(* ----------------------- order and cursor of a pass -------------------- *)

\* C32: in every poll round of an AndTask the left slot is polled before
\* the right slot, and in every poll round of an AllTask the slots are
\* polled in the order of their indexes: the leaves of a round are polled in
\* the order in which apply made their tasks.
C32_SlotsPolledInOrder ==
    (endpoint.kind \in {"and", "all"}) =>
        \A k \in DOMAIN polls :
            \A m, n \in DOMAIN polls[k].log :
                m < n => polls[k].log[m].id < polls[k].log[n].id

C32_Witness ==
    /\ endpoint = and(pending, pending)
    /\ Len(polls) = 2
    /\ Len(polls[1].log) = 2
    /\ polls[1].log[1].id = 1
    /\ polls[1].log[2].id = 2
    /\ Len(polls[2].log) = 2

\* The endpoints whose apply is bound to leave the cursor at or after the
\* place it found it.
Forward ==
    {"segment", "str", "match", "match_all", "eos", "path", "path_req", "path_opt",
     "paths", "remains", "method", "and", "all"}

IsPrefix(p, q) == Len(p) < Len(q) /\ \A i \in DOMAIN p : p[i] = q[i]

\* C33: within one apply pass no primitive endpoint and no And or All moves
\* the cursor backwards, on a match or on a decline: every call leaves the
\* cursor at or after the place it found it, and an And or All leaves it at
\* or after the place each of its operands left it.
C33_CursorNeverMovesBack ==
    \A i \in DOMAIN applied :
        applied[i].ep.kind \in Forward =>
            /\ applied[i].before <= applied[i].after
            /\ \A j \in DOMAIN applied :
                  (applied[j].ep.kind \in {"and", "all"}
                      /\ IsPrefix(applied[j].path, applied[i].path)) =>
                      /\ applied[j].before <= applied[i].before
                      /\ applied[i].after <= applied[j].after

C33_Witness ==
    /\ endpoint = and(segment("foo"), foo_bar)
    /\ segs = <<"foo", "bar">>
    /\ pc = "Declined"
    /\ pos = 2

\* C39: And and All do not restore the cursor: an And or All that declines
\* leaves the cursor where the operand that declined left it, after
\* everything the operands before it consumed.
C39_AndAllLeaveCursorOnDecline ==
    /\ \A j \in DOMAIN applied :
          (applied[j].ep.kind \in {"and", "all"} /\ ~Matches(applied[j].out)) =>
              /\ j > 1
              /\ ~Matches(applied[j - 1].out)
              /\ applied[j].after = applied[j - 1].after
              /\ \A i \in 1..(j - 1) :
                    IsPrefix(applied[j].path, applied[i].path) =>
                        applied[i].after <= applied[j].after
    /\ (endpoint.kind \in {"and", "all"} /\ pc = "Declined") =>
          pos = applied[Len(applied) - 1].after

C39_Witness ==
    /\ endpoint = and(segment("foo"), path)
    /\ segs = <<"foo", "bar">>
    /\ pc = "Declined"
    /\ pos = 2
    /\ applied[1].after = 1

ApiPath(s) == <<"api", "v1", "posts", s>>

\* C34: the route GET api/v1/posts/<u32>, a chain of Ands: on
\* GET /api/v1/posts/42 it matches, the cursor is at the end of the path and
\* the id is 42; on GET /api/v1/posts/abc the route with the lenient
\* extractor declines, which is answered as not found, and the route with
\* the required extractor matches and its task fails with a bad request.
C34_ApiPostsRoute ==
    (endpoint \in ApiRoutes /\ method = "GET" /\ pc # "Start") =>
        /\ segs = ApiPath("42") =>
              /\ pc \in {"InFlight", "Ready"}
              /\ pos = Len(segs)
              /\ polls # <<>> =>
                    /\ polls[1].res = "Ready"
                    /\ polls[1].log[Len(polls[1].log)].val = IntV(42)
        /\ (segs = ApiPath("abc") /\ endpoint = api_posts(path)) =>
              /\ pc = "Declined"
              /\ polls = <<>>
              /\ response.sent => response.err = "NoRoute"
        /\ (segs = ApiPath("abc") /\ endpoint = api_posts(path_req)) =>
              /\ pc \in {"InFlight", "Failed"}
              /\ polls # <<>> =>
                    /\ polls[1].res = "Err"
                    /\ polls[1].err = BadRequest("ParseIntError")

C34_Witness ==
    /\ endpoint = api_posts(path_req)
    /\ method = "GET"
    /\ segs = ApiPath("abc")
    /\ pc = "Failed"
    /\ polls[1].err = BadRequest("ParseIntError")

\* C35: param and remains skip the request when the conversion fails: the
\* failure is reported as a missing segment is, as not found, and not as a
\* bad request.
C35_ConversionFailureSkips ==
    \A i \in DOMAIN applied :
        (applied[i].ep.kind \in {"param", "remains"} /\ applied[i].out = "Err") =>
            applied[i].err = "NOT_FOUND"

(* ----------------- the Input and the clock of a service --------------- *)

\* C36: the result of Input::content_type is cached: every call after the
\* first returns what the first call returned and neither reads nor parses
\* the header again, whether the first result was a media type, an absent
\* header or an error.
C36_ContentTypeCached ==
    \A k \in DOMAIN cache.calls :
        k > 1 =>
            /\ cache.calls[k].res = cache.calls[1].res
            /\ ~cache.calls[k].read
            /\ ~cache.calls[k].parsed

\* C40: the number logged as "(<n> ms)" is the whole milliseconds that
\* passed: seconds * 1000 + subsecond nanoseconds / 1000000.
C40_LoggedWholeMillis ==
    timer.logged # <<>> =>
        timer.logged[1] = timer.secs * 1000 + timer.nanos \div 1000000

(* ------------------- a driver that keeps polling ---------------------- *)

\* C37: when the driver keeps polling and the leaves do not wait for ever,
\* a task of And or All that is in flight eventually returns Ready or an
\* error, and the AppFuture of every request reaches Done.
C37_TasksResolve ==
    /\ (pc = "InFlight") ~> (pc \in {"Ready", "Failed"})
    /\ (state = "Start") ~> (state = "Done")

\* Two waiting leaves of an And, the first poll NotReady, the task Ready in
\* a later poll and the AppFuture Done.
C37_Witness ==
    /\ endpoint = and(pending, pending)
    /\ Len(polls) >= 2
    /\ polls[1].res = "NotReady"
    /\ pc = "Ready"
    /\ state = "Done"

(* ---------------- two requests on one shared endpoint ----------------- *)

\* The first request, as the record the second one is kept in.
RequestA ==
    [segs |-> segs, pc |-> pc, pos |-> pos, task |-> task, applied |-> applied,
     polls |-> [k \in DOMAIN polls |->
                   [res |-> polls[k].res, val |-> polls[k].val, err |-> polls[k].err,
                    log |-> polls[k].log, io |-> polls[k].io]]]

\* The task of a request that runs alone on endpoint, after the first k of
\* the polls ps, its leaves offered what they were offered in ps.
RECURSIVE TaskAlone(_, _, _)
TaskAlone(t, ps, k) ==
    IF k = 0 THEN t ELSE Task_poll(TaskAlone(t, ps, k - 1), Cx(ps[k].io, "Some")).task

\* Request q has got what it gets when it runs alone: the same apply calls,
\* cursor movement and outcome, and the same result of every poll.
SameAsAlone(q) ==
    q.pc # "Start" =>
        LET r == Apply(endpoint, <<>>, q.segs, 0, 1) IN
        /\ q.applied = r.log
        /\ q.pos = r.pos
        /\ (q.pc = "Declined") = ~Matches(r.out)
        /\ q.task = TaskAlone(r.task, q.polls, Len(q.polls))
        /\ \A k \in DOMAIN q.polls :
              LET x == Task_poll(TaskAlone(r.task, q.polls, k - 1), Cx(q.polls[k].io, "Some"))
              IN  /\ q.polls[k].res = x.res
                  /\ q.polls[k].val = x.val
                  /\ q.polls[k].err = x.err
                  /\ q.polls[k].log = x.log

====
